---- MODULE Spec2Model ----
(***************************************************************************)
(* State-machine model of the authentication and credential-protection     *)
(* core of api-token-monitor: the rate limiter and the record store with   *)
(* its in-memory locks (src/src/utils/auth.ts), token hashing              *)
(* (src/src/utils/crypto.ts), the AuthProvider session                     *)
(* (src/src/hooks/useAuth.tsx) and the login form                          *)
(* (src/src/components/Login.tsx).                                         *)
(*                                                                         *)
(* Time is Date.now() in milliseconds, counted from the moment the page    *)
(* is loaded: the code only ever uses differences of timestamps.           *)
(***************************************************************************)
EXTENDS Integers, Sequences, FiniteSets, TLC

\* ------------------------------------------------------------------ bounds

\* How many times the clock advances in one behaviour.
MaxTicks == 4

\* How many entries the audit log takes: a call that would log one more is
\* not made.
MaxAuditLogs == 2
MaxHashes == 2
MaxAppEvents == 2
MaxAppTicks == 1

\* ------------------------------------------------- rate-limit configuration

RATE_LIMIT_ATTEMPTS == 5
RATE_LIMIT_WINDOW == 15 * 60 * 1000
LOCKOUT_DURATION == 60 * 60 * 1000

\* RateLimitState.lockedUntil is `number | null`; NullTime stands for null.
NullTime == -1

\* The identifiers the rate limiter is asked about: the login form's
\* (Login.tsx: useRateLimit('login')).
Identifiers == {"login"}

\* The steps by which the clock advances between two calls (milliseconds):
\* within a second, the window length, and almost the lockout length, so
\* that every boundary of the code's comparisons is hit exactly, one
\* millisecond before and one after.
Deltas == {1, 999, RATE_LIMIT_WINDOW, LOCKOUT_DURATION - 1000}

VARIABLES
    now,             \* Date.now()
    ticks,           \* how often the clock advanced
    rateLimitStore,  \* Map identifier -> RateLimitState (absent: no entry)
    auditLogs,       \* the audit log, oldest first
    ret,             \* what the last call returned (cleared by other steps)
    rlCalls,         \* per identifier: checks since it had no state, each
                     \* within the window of the one before (0: interrupted)
    rlLastCallAt,    \* per identifier: time of its last check
    afterReset,      \* per identifier: what resetRateLimit found, until the
                     \* next check ("no": no reset since the last check)
    rlWindowStart,   \* per identifier: time of the check that last set its
                     \* attempts to 1
    rlConfig,        \* the module's constants RATE_LIMIT_WINDOW and
                     \* LOCKOUT_DURATION, as this build has them
    localStorage,    \* the browser's localStorage: the users index, the
                     \* user items, and auth_token
    locks,           \* Map lock key -> the promise of its holder: who holds
                     \* it, and who awaits it, in the order they began to
    microtasks,      \* the microtask queue: continuations ready to run
    procs,           \* per caller: the store operation it runs and where
    acqOrder,        \* the callers whose acquireLock has not been followed
                     \* by a release yet, in the order of their calls
    adminHash,       \* import.meta.env.VITE_ADMIN_TOKEN_HASH (None: unset)
    session,         \* AuthProvider's state: isAuthenticated, user, token
    form,            \* the login form's state: isLoading, error
    loginCall,       \* the login() in flight: where it is, and its token
    nextSalt,        \* how many salts crypto.getRandomValues has drawn
    validating,      \* the validateSession() in flight: its stored token
    reloads,         \* how often the page was reloaded
    lastSaved        \* per uuid: the record last saved and not deleted
                     \* since, and the page load it was saved in

clockVars == <<now, ticks>>
rlVars == <<rateLimitStore, rlCalls, rlLastCallAt, afterReset, rlWindowStart,
           rlConfig>>
storeVars == <<localStorage>>
lockVars == <<locks, microtasks, procs, acqOrder>>
appVars == <<adminHash, session, form, loginCall, nextSalt>>
persistVars == <<validating, reloads, lastSaved>>
vars == <<now, ticks, rateLimitStore, auditLogs, ret, rlCalls, rlLastCallAt,
          afterReset, rlWindowStart, rlConfig, localStorage, locks, microtasks, procs, acqOrder,
          adminHash, session, form, loginCall, nextSalt, validating, reloads,
          lastSaved>>

\* ----------------------------------------------------------------- helpers

\* Math.ceil(a / b) for integers a >= 0, b > 0.
CeilDiv(a, b) == (a + b - 1) \div b

Min(a, b) == IF a <= b THEN a ELSE b

NoReturn == [op |-> "none"]

\* A slip: the entry is not appended.
logAuditEventDropped(logs, event, details) == logs

\* logAuditEvent: one entry appended (the entry's timestamp prefix is left
\* out: no claim reads it).
logAuditEvent(logs, event, details) ==
    Append(logs, [event |-> event, details |-> details])

\* -------------------------------------------------------------- rate limiter

\* A slip in the order of the tests: the window is looked at before the lock.
CurrentlyLockedWithinWindow(state, t) ==
    /\ state.lockedUntil # NullTime /\ state.lockedUntil # 0
    /\ t < state.lockedUntil
    /\ ~(t - state.lastAttempt > RATE_LIMIT_WINDOW)

\* An off-by-one slip: `<=` for `<`.
CurrentlyLockedInclusive(state, t) ==
    state.lockedUntil # NullTime /\ state.lockedUntil # 0 /\ t <= state.lockedUntil

\* `state.lockedUntil && now < state.lockedUntil`
CurrentlyLocked(state, t) ==
    state.lockedUntil # NullTime /\ state.lockedUntil # 0 /\ t < state.lockedUntil

\* `now - state.lastAttempt > RATE_LIMIT_WINDOW`
WindowPassed(state, t, window) == t - state.lastAttempt > window

\* A slip: the count of attempts is never looked at.
TooManyAttemptsNever(state) == FALSE

\* An off-by-one slip: `>` for `>=`.
TooManyAttemptsOffByOne(state) == state.attempts > RATE_LIMIT_ATTEMPTS

\* `state.attempts >= RATE_LIMIT_ATTEMPTS`
TooManyAttempts(state) == state.attempts >= RATE_LIMIT_ATTEMPTS

FreshState(t) == [attempts |-> 1, lastAttempt |-> t, lockedUntil |-> NullTime]

\* The two durations as the source sets them.
CodeConfig == [window |-> RATE_LIMIT_WINDOW, lockout |-> LOCKOUT_DURATION]

\* checkRateLimit as a function of the map, the clock and the two durations:
\* the new map, the value returned, whether RATE_LIMIT_EXCEEDED is logged,
\* and the return statement taken.
checkRateLimitUnder(store, identifier, t, config) ==
    IF identifier \notin DOMAIN store
    THEN [store |-> (identifier :> FreshState(t)) @@ store,
          allowed |-> TRUE, retryAfter |-> 0, logged |-> FALSE, branch |-> "new"]
    ELSE LET state == store[identifier] IN
         IF CurrentlyLocked(state, t)
         THEN [store |-> store, allowed |-> FALSE,
               retryAfter |-> CeilDiv(state.lockedUntil - t, 1000),
               logged |-> FALSE, branch |-> "locked"]
         ELSE IF WindowPassed(state, t, config.window)
         THEN [store |-> [store EXCEPT ![identifier] = FreshState(t)],
               allowed |-> TRUE, retryAfter |-> 0, logged |-> FALSE,
               branch |-> "window"]
         ELSE IF TooManyAttempts(state)
         THEN [store |-> [store EXCEPT ![identifier] =
                             [state EXCEPT !.lockedUntil = t + config.lockout,
                                           !.lastAttempt = t]],
               allowed |-> FALSE,
               retryAfter |-> CeilDiv(config.lockout, 1000),
               logged |-> TRUE, branch |-> "exceeded"]
         ELSE [store |-> [store EXCEPT ![identifier] =
                             [state EXCEPT !.attempts = state.attempts + 1,
                                           !.lastAttempt = t]],
               allowed |-> TRUE, retryAfter |-> 0, logged |-> FALSE,
               branch |-> "counted"]

\* checkRateLimit of this build.
checkRateLimit(store, identifier, t) ==
    checkRateLimitUnder(store, identifier, t, CodeConfig)

\* A slip: the counter is cleared and the entry, with its lock, is kept.
resetAttemptsOnly(store, identifier) ==
    IF identifier \in DOMAIN store
    THEN [store EXCEPT ![identifier].attempts = 0]
    ELSE store

\* resetRateLimit: rateLimitStore.delete(identifier)
resetRateLimit(store, identifier) ==
    [k \in DOMAIN store \ {identifier} |-> store[k]]

\* What a state of the map is called in the specification's state machine.
Phase(store, identifier, t) ==
    IF identifier \notin DOMAIN store THEN "fresh"
    ELSE IF CurrentlyLocked(store[identifier], t) THEN "locked"
    ELSE "counting"

\* The audit log after a check of `identifier` that returned `r`.
LogAfterCheck(logs, store, identifier, r) ==
    IF r.logged
    THEN logAuditEvent(logs, "RATE_LIMIT_EXCEEDED",
                       [identifier |-> identifier,
                        attempts |-> store[identifier].attempts])
    ELSE logs

\* The observers of a check: the count of checks in a row, and the time of
\* this one.
CallsAfterCheck(identifier) ==
    IF identifier \notin DOMAIN rateLimitStore THEN 1
    ELSE IF rlCalls[identifier] > 0
            /\ now - rlLastCallAt[identifier] <= rlConfig.window
    THEN Min(rlCalls[identifier] + 1, RATE_LIMIT_ATTEMPTS + 2)
    ELSE 0

\* A call of checkRateLimit(identifier).
CheckRateLimit(identifier) ==
    LET r == checkRateLimitUnder(rateLimitStore, identifier, now, rlConfig) IN
    /\ r.logged => Len(auditLogs) < MaxAuditLogs
    /\ rateLimitStore' = r.store
    /\ auditLogs' = LogAfterCheck(auditLogs, rateLimitStore, identifier, r)
    /\ ret' = [op |-> "checkRateLimit", id |-> identifier,
               allowed |-> r.allowed, retryAfter |-> r.retryAfter,
               branch |-> r.branch,
               phase |-> Phase(rateLimitStore, identifier, now),
               expired |-> /\ identifier \in DOMAIN rateLimitStore
                           /\ rateLimitStore[identifier].lockedUntil # NullTime
                           /\ now >= rateLimitStore[identifier].lockedUntil,
               afterReset |-> afterReset[identifier],
               lockedBeforeReload |->
                   IF ret.op = "reload" THEN identifier \in ret.locked
                   ELSE FALSE]
    /\ rlCalls' = [rlCalls EXCEPT ![identifier] = CallsAfterCheck(identifier)]
    /\ rlLastCallAt' = [rlLastCallAt EXCEPT ![identifier] = now]
    /\ afterReset' = [afterReset EXCEPT ![identifier] = "no"]
    /\ rlWindowStart' = [rlWindowStart EXCEPT ![identifier] =
                             IF r.store[identifier].attempts = 1 THEN now ELSE @]
    /\ UNCHANGED <<clockVars, rlConfig, storeVars, lockVars, appVars, persistVars>>

\* A call of resetRateLimit(identifier).
ResetRateLimit(identifier) ==
    /\ rateLimitStore' = resetRateLimit(rateLimitStore, identifier)
    /\ ret' = [op |-> "resetRateLimit", id |-> identifier]
    /\ afterReset' = [afterReset EXCEPT ![identifier] =
                         Phase(rateLimitStore, identifier, now)]
    /\ rlCalls' = [rlCalls EXCEPT ![identifier] = 0]
    /\ UNCHANGED <<clockVars, auditLogs, rlLastCallAt, rlWindowStart, rlConfig, storeVars,
                   lockVars, appVars, persistVars>>

\* Time passes.
Tick(d) ==
    /\ ticks < MaxTicks
    /\ now' = now + d
    /\ ticks' = ticks + 1
    /\ ret' = NoReturn
    /\ UNCHANGED <<rlVars, auditLogs, storeVars, lockVars, appVars, persistVars>>

\* ------------------------------------------------------------ record store

\* A nullable value: None is null, Some(v) is v.
None == <<>>
Some(v) == <<v>>

\* An id as isValidUUID's pattern sees it: its text, the lengths of its
\* '-'-separated groups, and whether every character of them is a hex digit.
UuidA == [text |-> "550e8400-e29b-41d4-a716-446655440000",
          groups |-> <<8, 4, 4, 4, 12>>, hex |-> TRUE]
UuidB == [text |-> "660E8400-E29B-41D4-A716-446655440001",
          groups |-> <<8, 4, 4, 4, 12>>, hex |-> TRUE]
NotAUuid == [text |-> "not-a-uuid", groups |-> <<3, 1, 4>>, hex |-> FALSE]

\* The ids crypto.randomUUID() draws from, and the ids callers pass.
RandomUuids == {UuidA, UuidB}
CallerIds == {UuidA, UuidB, NotAUuid}

\* A slip: every id passes.
isValidUUIDAny(uuid) == TRUE

\* isValidUUID: /^[0-9a-f]{8}-[0-9a-f]{4}-[0-9a-f]{4}-[0-9a-f]{4}-[0-9a-f]{12}$/i
isValidUUID(uuid) == uuid.groups = <<8, 4, 4, 4, 12>> /\ uuid.hex

\* JSON.stringify and JSON.parse of a value made of strings, numbers and
\* arrays: the text, and the value read back from it.
JsonStringify(v) == [json |-> v]
JsonParse(text) == text.json

\* JSON.parse(text) returns: a text that is no JSON makes it throw a
\* SyntaxError.
JsonParses(text) == "json" \in DOMAIN text

\* new Date(ms).toISOString(), and new Date(iso).getTime().
ToISOString(ms) == [iso |-> ms]
GetTime(date) == date.iso

\* getUserKey: the storage key of a user, STORAGE_PREFIX + 'user_' + uuid.
getUserKey(uuid) == uuid.text

Range(seq) == {seq[i] : i \in 1..Len(seq)}

EmptyStorage == [index |-> None, items |-> <<>>, authToken |-> None]

\* localStorage.getItem(key) on a user key: null, or the text stored.
getItem(ls, key) == IF key \in DOMAIN ls.items THEN Some(ls.items[key]) ELSE None

\* A slip: an item that exists is not written again.
setItemIfAbsent(ls, key, text) == [ls EXCEPT !.items = ls.items @@ (key :> text)]

setItem(ls, key, text) == [ls EXCEPT !.items = (key :> text) @@ ls.items]

removeItem(ls, key) ==
    [ls EXCEPT !.items = [k \in DOMAIN ls.items \ {key} |-> ls.items[k]]]

\* getUsersIndex: the parsed index, [] when the key is absent.
getUsersIndex(ls) == IF ls.index = None THEN <<>> ELSE JsonParse(ls.index[1])

saveUsersIndex(ls, index) == [ls EXCEPT !.index = Some(JsonStringify(index))]

Returned(ls, value) == [ls |-> ls, threw |-> FALSE, value |-> value]
Threw(ls, message) == [ls |-> ls, threw |-> TRUE, value |-> message]

\* A slip: the id is pushed without looking whether the index has it.
saveUserDataAppending(ls, userData) ==
    IF ~isValidUUID(userData.uuid) THEN Threw(ls, "Invalid UUID format")
    ELSE LET ls1 == setItem(ls, getUserKey(userData.uuid), JsonStringify(userData))
         IN  Returned(saveUsersIndex(ls1, Append(getUsersIndex(ls1), userData.uuid)),
                      None)

\* The try block of saveUserData.
saveUserData(ls, userData) ==
    IF ~isValidUUID(userData.uuid) THEN Threw(ls, "Invalid UUID format")
    ELSE LET ls1 == setItem(ls, getUserKey(userData.uuid), JsonStringify(userData))
             index == getUsersIndex(ls1)
         IN  IF userData.uuid \in Range(index)
             THEN Returned(ls1, None)
             ELSE Returned(saveUsersIndex(ls1, Append(index, userData.uuid)), None)

\* The try block of loadUserData.
loadUserData(ls, uuid) ==
    IF ~isValidUUID(uuid) THEN Threw(ls, "Invalid UUID format")
    ELSE LET data == getItem(ls, getUserKey(uuid))
         IN  IF data = None THEN Returned(ls, None)
             ELSE IF ~JsonParses(data[1]) THEN Threw(ls, "SyntaxError")
             ELSE Returned(ls, Some(JsonParse(data[1])))

\* The try block of findUserByTokenHash: the first user of the index, in
\* index order, whose item exists and carries the hash; an item met before
\* it that is no JSON makes JSON.parse throw.
findUserByTokenHash(ls, tokenHash) ==
    LET index == getUsersIndex(ls)
        item(i) == getItem(ls, getUserKey(index[i]))
        stops == {i \in 1..Len(index) :
                     IF item(i) = None THEN FALSE
                     ELSE IF ~JsonParses(item(i)[1]) THEN TRUE
                     ELSE JsonParse(item(i)[1]).tokenHash = tokenHash}
    IN  IF stops = {} THEN Returned(ls, None)
        ELSE LET first == CHOOSE i \in stops : \A j \in stops : i <= j
             IN  IF ~JsonParses(item(first)[1]) THEN Threw(ls, "SyntaxError")
                 ELSE Returned(ls, Some(JsonParse(item(first)[1])))

\* A slip: the item is removed and the index is left as it was.
deleteItemOnly(ls, uuid) ==
    IF ~isValidUUID(uuid) THEN Threw(ls, "Invalid UUID format")
    ELSE Returned(removeItem(ls, getUserKey(uuid)), TRUE)

\* The try block of deleteUser.
deleteUser(ls, uuid) ==
    IF ~isValidUUID(uuid) THEN Threw(ls, "Invalid UUID format")
    ELSE LET ls1 == removeItem(ls, getUserKey(uuid))
             keep(id) == id # uuid
             newIndex == SelectSeq(getUsersIndex(ls1), keep)
         IN  Returned(saveUsersIndex(ls1, newIndex), TRUE)

\* users.sort((a, b) => getTime(b.createdAt) - getTime(a.createdAt)): a
\* stable sort, latest first.
RECURSIVE SortByCreatedAtDesc(_)
SortByCreatedAtDesc(users) ==
    IF users = <<>> THEN <<>>
    ELSE LET n == Len(users)
             x == users[n]
             sorted == SortByCreatedAtDesc(SubSeq(users, 1, n - 1))
             before == {i \in 1..Len(sorted) :
                           GetTime(sorted[i].createdAt) >= GetTime(x.createdAt)}
             k == Cardinality(before)
         IN  SubSeq(sorted, 1, k) \o <<x>> \o SubSeq(sorted, k + 1, Len(sorted))

\* The try block of listAllUsers.
listAllUsers(ls) ==
    LET index == getUsersIndex(ls)
        has(id) == getItem(ls, getUserKey(id)) # None
        present == SelectSeq(index, has)
        users == [i \in 1..Len(present) |->
                     JsonParse(getItem(ls, getUserKey(present[i]))[1])]
    IN  IF \E i \in 1..Len(present) :
               ~JsonParses(getItem(ls, getUserKey(present[i]))[1])
        THEN Threw(ls, "SyntaxError")
        ELSE Returned(ls, SortByCreatedAtDesc(users))

\* The try block of clearAllData.
clearAllData(ls) ==
    LET indexed == {getUserKey(id) : id \in Range(getUsersIndex(ls))}
    IN  Returned([ls EXCEPT !.items = [k \in DOMAIN ls.items \ indexed |-> ls.items[k]],
                            !.index = None],
                 None)

\* The record createUser builds.
NewUserData(uuid, tokenHash, role, t) ==
    [uuid |-> uuid, tokenHash |-> tokenHash, apiKeys |-> <<>>,
     createdAt |-> ToISOString(t), lastAccess |-> ToISOString(t),
     role |-> role, permissions |-> <<"read:dashboard">>]

\* What the body of a store operation does to localStorage, and what it
\* returns or throws.  createUser and updateUser run saveUserData.
StoreBody(op, ls, arg) ==
    CASE op \in {"saveUserData", "createUser", "updateUser"} -> saveUserData(ls, arg)
      [] op = "loadUserData" -> loadUserData(ls, arg)
      [] op = "findUserByTokenHash" -> findUserByTokenHash(ls, arg)
      [] op = "deleteUser" -> deleteUser(ls, arg)
      [] op = "listAllUsers" -> listAllUsers(ls)
      [] op = "clearAllData" -> clearAllData(ls)

\* ------------------------------------------------------------------- locks

\* The lock key of an operation on one user, `user:${uuid}`; the keys of
\* the operations on the index.
UserLockKey(uuid) == <<"user", uuid.text>>
SearchLockKey == <<"user", "search">>
ListLockKey == <<"user", "list">>
ClearLockKey == <<"global", "clear">>

\* A slip: the lock is taken without looking whether it is held.
LockNeverHeld(lks, key) == FALSE

\* `locks.has(key)`
LockHeld(lks, key) == key \in DOMAIN lks

\* acquireLock from its call, or from the wake-up of its await, up to its
\* next await: a held lock's promise is awaited; a free lock is taken and
\* the caller's continuation is queued.  JavaScript runs this without
\* interruption.
acquireLock(lks, queue, p, key) ==
    IF LockHeld(lks, key)
    THEN [locks |-> [lks EXCEPT ![key].waiters = Append(@, p)],
          microtasks |-> queue, pc |-> "waiting"]
    ELSE [locks |-> (key :> [holder |-> p, waiters |-> <<>>]) @@ lks,
          microtasks |-> Append(queue, [proc |-> p, glued |-> FALSE]),
          pc |-> "acquired"]

\* The reactions of the callers awaiting a promise, queued when it is
\* resolved, in the order they began to await.  No other job can stand
\* between two of them in the queue ("glued").
Reactions(waiters) ==
    [i \in 1..Len(waiters) |-> [proc |-> waiters[i], glued |-> i > 1]]

\* release(): `locks.delete(key); release!()`.
release(lks, queue, key) ==
    IF key \in DOMAIN lks
    THEN [locks |-> [k \in DOMAIN lks \ {key} |-> lks[k]],
          microtasks |-> queue \o Reactions(lks[key].waiters),
          woken |-> Range(lks[key].waiters)]
    ELSE [locks |-> lks, microtasks |-> queue, woken |-> {}]

\* A slip: release() after the try block instead of in `finally`.
ReleaseUnlessThrown(lks, queue, key, out) ==
    IF out.threw
    THEN [locks |-> lks, microtasks |-> queue, woken |-> {}]
    ELSE release(lks, queue, key)

\* `finally { release(); }`: whatever the try block did.
ReleaseFinally(lks, queue, key, out) == release(lks, queue, key)

Callers == {"c1", "c2", "c3"}

IdleProc == [op |-> "none", pc |-> "idle", key |-> None, arg |-> None,
             waited |-> FALSE, result |-> None]

RemoveProc(seq, p) == LET keep(q) == q # p IN SelectSeq(seq, keep)

\* A caller's code may run between two jobs of the queue unless the second
\* was queued right behind the first by one and the same job.
CanCall == IF Len(microtasks) = 0 THEN TRUE ELSE ~Head(microtasks).glued

\* Caller p calls a store operation: the operation runs up to the await in
\* acquireLock.
Call(p, op, arg, key) ==
    /\ CanCall
    /\ procs[p].pc = "idle"
    /\ LET a == acquireLock(locks, microtasks, p, key) IN
       /\ locks' = a.locks
       /\ microtasks' = a.microtasks
       /\ procs' = [procs EXCEPT ![p] = [op |-> op, pc |-> a.pc, key |-> key,
                                         arg |-> arg, waited |-> a.pc = "waiting",
                                         result |-> None]]
    /\ acqOrder' = Append(acqOrder, p)
    /\ ret' = NoReturn
    /\ UNCHANGED <<clockVars, rlVars, auditLogs, storeVars, appVars, persistVars>>

CallSaveUserData(p, userData) ==
    Call(p, "saveUserData", userData, UserLockKey(userData.uuid))

CallLoadUserData(p, uuid) == Call(p, "loadUserData", uuid, UserLockKey(uuid))

CallFindUserByTokenHash(p, tokenHash) ==
    Call(p, "findUserByTokenHash", tokenHash, SearchLockKey)

CallDeleteUser(p, uuid) == Call(p, "deleteUser", uuid, UserLockKey(uuid))

CallListAllUsers(p) == Call(p, "listAllUsers", None, ListLockKey)

CallClearAllData(p) == Call(p, "clearAllData", None, ClearLockKey)

\* The ids no stored or pending record carries: what randomUUID may return.
FreshUuids ==
    {u \in RandomUuids :
        /\ getUserKey(u) \notin DOMAIN localStorage.items
        /\ u \notin Range(getUsersIndex(localStorage))
        /\ \A q \in DOMAIN procs : procs[q].key # UserLockKey(u)}

\* createUser(tokenHash, role): a fresh uuid, the record, saveUserData.
CallCreateUser(p, tokenHash, role) ==
    \E uuid \in FreshUuids :
        Call(p, "createUser", NewUserData(uuid, tokenHash, role, now),
             UserLockKey(uuid))

\* updateUser(userData): lastAccess is stamped, then saveUserData.
CallUpdateUser(p, userData) ==
    Call(p, "updateUser", [userData EXCEPT !.lastAccess = ToISOString(now)],
         UserLockKey(userData.uuid))

\* The job at the head of the queue is p's continuation after acquireLock:
\* the try block, then `finally { release(); }`.  The operation returns (or
\* throws) to its caller; createUser and updateUser, which await
\* saveUserData, go on in a job of their own.
RunBody(p) ==
    /\ Len(microtasks) > 0 /\ Head(microtasks).proc = p
    /\ procs[p].pc = "acquired"
    /\ LET out == StoreBody(procs[p].op, localStorage, procs[p].arg)
           r == ReleaseFinally(locks, Tail(microtasks), procs[p].key, out)
           wrapped == procs[p].op \in {"createUser", "updateUser"}
           result == [threw |-> out.threw, value |-> out.value]
       IN
       /\ localStorage' = out.ls
       /\ locks' = r.locks
       /\ microtasks' =
              IF wrapped
              THEN Append(r.microtasks, [proc |-> p, glued |-> r.woken # {}])
              ELSE r.microtasks
       /\ procs' = [q \in DOMAIN procs |->
                       IF q = p
                       THEN [procs[p] EXCEPT
                                !.pc = IF wrapped THEN "returning" ELSE "done",
                                !.result = result]
                       ELSE IF q \in r.woken
                       THEN [procs[q] EXCEPT !.pc = "woken"]
                       ELSE procs[q]]
    /\ acqOrder' = RemoveProc(acqOrder, p)
    /\ ret' = NoReturn
    /\ UNCHANGED <<clockVars, rlVars, auditLogs, appVars, persistVars>>

\* The job at the head of the queue is p's wake-up from `await
\* locks.get(key)`: the while loop tests the lock again.
Wake(p) ==
    /\ Len(microtasks) > 0 /\ Head(microtasks).proc = p
    /\ procs[p].pc = "woken"
    /\ LET a == acquireLock(locks, Tail(microtasks), p, procs[p].key) IN
       /\ locks' = a.locks
       /\ microtasks' = a.microtasks
       /\ procs' = [procs EXCEPT ![p].pc = a.pc]
    /\ ret' = NoReturn
    /\ UNCHANGED <<clockVars, rlVars, auditLogs, storeVars, acqOrder, appVars, persistVars>>

\* The job at the head of the queue is createUser's or updateUser's
\* continuation after `await saveUserData(...)`: createUser returns the
\* record.
Return(p) ==
    /\ Len(microtasks) > 0 /\ Head(microtasks).proc = p
    /\ procs[p].pc = "returning"
    /\ microtasks' = Tail(microtasks)
    /\ procs' = [procs EXCEPT
                    ![p].pc = "done",
                    ![p].result =
                        IF procs[p].op = "createUser" /\ ~procs[p].result.threw
                        THEN [threw |-> FALSE, value |-> procs[p].arg]
                        ELSE procs[p].result]
    /\ ret' = NoReturn
    /\ UNCHANGED <<clockVars, rlVars, auditLogs, storeVars, locks, acqOrder, appVars, persistVars>>

\* p's operation has returned to its caller; a further call of the store,
\* by whatever job makes it, goes by the name p.
GoOn(p) ==
    /\ procs[p].pc = "done"
    /\ procs' = [procs EXCEPT ![p] = IdleProc]
    /\ ret' = NoReturn
    /\ UNCHANGED <<clockVars, rlVars, auditLogs, storeVars, locks, microtasks,
                   acqOrder, appVars, persistVars>>

\* The records and hashes callers of the store pass.
TestHashes == {<<"hash123">>}
TestRoles == {"user", "admin"}
TestUsers == {NewUserData(u, h, "user", 0) : u \in CallerIds, h \in TestHashes}

\* ------------------------------------------------------ strings and hashing

\* A string is the sequence of its characters.  A run of characters that no
\* operation here looks into (a hex number, an entity's name) is one
\* element.

\* String.prototype.trim(): leading and trailing white space removed.
RECURSIVE trimStart(_)
trimStart(str) ==
    IF str # <<>> /\ Head(str) = " " THEN trimStart(Tail(str)) ELSE str

RECURSIVE trimEnd(_)
trimEnd(str) ==
    IF str # <<>> /\ str[Len(str)] = " "
    THEN trimEnd(SubSeq(str, 1, Len(str) - 1))
    ELSE str

trim(str) == trimEnd(trimStart(str))

\* str.replace(/ch/g, replacement)
RECURSIVE ReplaceAll(_, _, _)
ReplaceAll(str, ch, replacement) ==
    IF str = <<>> THEN <<>>
    ELSE (IF Head(str) = ch THEN replacement ELSE <<Head(str)>>)
             \o ReplaceAll(Tail(str), ch, replacement)

\* sanitizeInput: the six replacements, '&' first.
sanitizeInput(input) ==
    LET s1 == ReplaceAll(input, "&", <<"&", "amp;">>)
        s2 == ReplaceAll(s1, "<", <<"&", "lt;">>)
        s3 == ReplaceAll(s2, ">", <<"&", "gt;">>)
        s4 == ReplaceAll(s3, "\"", <<"&", "quot;">>)
        s5 == ReplaceAll(s4, "'", <<"&", "#x27;">>)
    IN  ReplaceAll(s5, "/", <<"&", "#x2F;">>)

\* str.split(separator): the parts between the separators.
RECURSIVE split(_, _)
split(str, separator) ==
    LET at == {i \in 1..Len(str) : str[i] = separator}
    IN  IF at = {} THEN <<str>>
        ELSE LET i == CHOOSE k \in at : \A l \in at : k <= l
             IN  <<SubSeq(str, 1, i - 1)>>
                     \o split(SubSeq(str, i + 1, Len(str)), separator)

PBKDF2_ITERATIONS == 100000

\* The salts 0 and 1 were drawn by earlier sessions, for the hashes found in
\* the environment and in localStorage when the page loads.
FirstSalt == 2

\* The hex text of a salt, and the salt read back from its hex text
\* (`saltHex.match(/.{2}/g).map(byte => parseInt(byte, 16))`).
SaltHex(salt) == "salt" \o ToString(salt)
SaltOfHex(text) == {n \in 0..(FirstSalt + MaxHashes) : SaltHex(n) = text}

\* A slip: no text is read as a number.
parseIntNaN(text) == {}

\* parseInt(text, 10) of an iteration count: NaN (no number) for other text.
parseInt(text) == {n \in {PBKDF2_ITERATIONS} : ToString(n) = text}

\* PBKDF2-SHA256 of the token under the salt and the iteration count, as
\* hex: a function of the three that maps different arguments to different
\* digests (no collision is ever found).
deriveBitsHex(token, salt, iterations) ==
    "pbkdf2(" \o ToString(<<token, salt, iterations>>) \o ")"

\* hashToken, given the salt crypto.getRandomValues drew:
\* `$pbkdf2$sha256$100000$${saltHex}$${hashHex}`.
hashToken(token, salt) ==
    <<"$", "pbkdf2", "$", "sha256", "$", ToString(PBKDF2_ITERATIONS), "$",
      SaltHex(salt), "$", deriveBitsHex(token, salt, PBKDF2_ITERATIONS)>>

\* A slip: the lengths are compared and the characters are not.
constantTimeEqualLength(a, b) == Len(a) = Len(b)

\* A slip: strings never compare equal.
constantTimeNeverEqual(a, b) == FALSE

\* constantTimeEqual: false on different lengths, else the OR of the XORs
\* of the characters is zero.
constantTimeEqual(a, b) ==
    IF Len(a) # Len(b) THEN FALSE
    ELSE \A i \in 1..Len(a) : a[i] = b[i]

\* A slip: the environment variable is used whether set or not.
ConfiguredAlways(env) == TRUE

\* `adminHash &&`: the environment variable is set, and not ''.
Configured(env) == IF env = None THEN FALSE ELSE env[1] # <<>>

\* The text the variable is read as where it is used.
EnvText(env) == IF env = None THEN <<>> ELSE env[1]

\* A slip: the token is never taken for the configured text.
verifyTokenNeverAdmin(token, env) == FALSE

\* verifyToken up to its first await: the token is the configured text
\* itself.
verifyTokenIsAdmin(token, env) ==
    IF Configured(env) THEN constantTimeEqual(token, EnvText(env)) ELSE FALSE

\* verifyToken after that, up to its return or its throw: the hash is
\* parsed, the token is derived under the hash's salt and iterations, and
\* the digests are compared.  A hash not of the six-part pbkdf2 form is
\* "malformed"; an empty salt (`match` gives null) or an iteration count
\* that is no number (deriveBits rejects NaN) raises; a salt text that is
\* no hex of a salt drawn gives bytes under which the digest differs.
verifyTokenParsed(token, hash) ==
    LET parts == split(hash, "$") IN
    IF Len(parts) # 6 THEN [outcome |-> "malformed", result |-> FALSE]
    ELSE IF parts[2] # <<"pbkdf2">> THEN [outcome |-> "malformed", result |-> FALSE]
    ELSE IF parts[5] = <<>> THEN [outcome |-> "raised", result |-> FALSE]
    ELSE IF Len(parts[4]) # 1 THEN [outcome |-> "raised", result |-> FALSE]
    ELSE IF parseInt(parts[4][1]) = {} THEN [outcome |-> "raised", result |-> FALSE]
    ELSE IF Len(parts[5]) # 1 THEN [outcome |-> "compared", result |-> FALSE]
    ELSE IF SaltOfHex(parts[5][1]) = {} THEN [outcome |-> "compared", result |-> FALSE]
    ELSE LET iterations == CHOOSE n \in parseInt(parts[4][1]) : TRUE
             salt == CHOOSE n \in SaltOfHex(parts[5][1]) : TRUE
         IN  [outcome |-> "compared",
              result |-> constantTimeEqual(
                             <<deriveBitsHex(token, salt, iterations)>>, parts[6])]

\* What verifyToken answers after that.
verifyTokenDerived(token, hash) == verifyTokenParsed(token, hash).result

\* A slip: no catch block around the parsing and the derivation.
verifyTokenUncaught(parsed) ==
    [result |-> parsed.result,
     derived |-> IF parsed.outcome = "compared" THEN 1 ELSE 0,
     dummy |-> IF parsed.outcome = "malformed" THEN 1 ELSE 0,
     threw |-> parsed.outcome = "raised"]

\* How verifyToken ends: a malformed hash and the catch block each compute
\* one dummy hashToken and return false.
verifyTokenCaught(parsed) ==
    [result |-> parsed.result,
     derived |-> IF parsed.outcome = "compared" THEN 1 ELSE 0,
     dummy |-> IF parsed.outcome \in {"malformed", "raised"} THEN 1 ELSE 0,
     threw |-> FALSE]

\* verifyToken(token, hash) under the environment `env`: its answer, how
\* many times it derived the token's digest (deriveBits ran to its end),
\* how many dummy hashes it computed, and whether it threw.  `token` is None for
\* a null argument and Some(text) for a string.  With the variable set, a
\* null token raises at `a.length` in constantTimeEqual, inside the try;
\* without it, TextEncoder.encode(null) encodes the text "null".
verifyToken(token, hash, env) ==
    IF token = None
    THEN IF Configured(env)
         THEN verifyTokenCaught([outcome |-> "raised", result |-> FALSE])
         ELSE verifyTokenCaught(verifyTokenParsed(<<"null">>, hash))
    ELSE IF verifyTokenIsAdmin(token[1], env)
         THEN [result |-> TRUE, derived |-> 0, dummy |-> 0, threw |-> FALSE]
         ELSE verifyTokenCaught(verifyTokenParsed(token[1], hash))

\* The texts the environment variable may hold, the tokens the admin panel
\* may generate, and what may be typed into the login form.
BootstrapSecret == <<"b", "0", "0", "t">>
HashedSecret == <<"p", "w">>
IssuedToken == <<"atm_v2_", "a1b2">>
AdminHashes == {None, Some(BootstrapSecret), Some(hashToken(HashedSecret, 0))}
GeneratedTokens == {IssuedToken}
FormTexts == {BootstrapSecret, HashedSecret, IssuedToken, <<" ">>,
              <<" ", "a", "/", "b">>}

\* ------------------------------------------------------------- application

NoSession == [isAuthenticated |-> FALSE, user |-> None, token |-> None]
IdleForm == [isLoading |-> FALSE, error |-> ""]
IdleLogin == [pc |-> "idle", inputToken |-> <<>>, tokenHash |-> <<>>]

ADMIN_PERMISSIONS ==
    <<"read:dashboard", "modify:settings", "manage:providers", "admin:access">>

\* The records of the store, as listAllUsers returns them (none when it
\* throws).
StoredUsers(ls) ==
    IF listAllUsers(ls).threw THEN {} ELSE Range(listAllUsers(ls).value)

\* The stored records whose hash is the token's under the hash's own salt:
\* the records that were created for the token.
RecordsOfToken(ls, token) ==
    {u \in StoredUsers(ls) : verifyTokenDerived(token, u.tokenHash)}

\* createUser, given the uuid generateUUID drew: the record, saved.
createUser(ls, uuid, tokenHash, role, t) ==
    LET userData == NewUserData(uuid, tokenHash, role, t)
    IN  [ls |-> saveUserData(ls, userData).ls, user |-> userData]

\* `user?.role === 'admin' || user?.permissions?.includes('admin:access')`
isAdmin(user) ==
    IF user = None THEN FALSE
    ELSE user[1].role = "admin" \/ "admin:access" \in Range(user[1].permissions)

\* A slip: the rate check's answer is not looked at.
RateCheckIgnored(rateCheck) == TRUE

\* `if (!rateCheck.allowed) { ...; return; }` is passed.
RateCheckPassed(rateCheck) == rateCheck.allowed

\* The login form is submitted with `text` in its field: handleSubmit up to
\* `await login(...)`, and login() up to `await hashToken(...)`.  The form's
\* controls are disabled while isLoading, so one login is in flight at a
\* time.
HandleSubmit(text) ==
    /\ ~form.isLoading
    /\ LET rateCheck == checkRateLimit(rateLimitStore, "login", now) IN
       /\ rateCheck.logged => Len(auditLogs) < MaxAppEvents
       /\ rateLimitStore' = rateCheck.store
       /\ auditLogs' = LogAfterCheck(auditLogs, rateLimitStore, "login", rateCheck)
       /\ IF ~RateCheckPassed(rateCheck)
          THEN /\ form' = [isLoading |-> FALSE, error |-> "Rate limit exceeded"]
               /\ loginCall' = loginCall
          ELSE IF trim(text) = <<>>
          THEN /\ form' = [isLoading |-> FALSE, error |-> "Please enter a token"]
               /\ loginCall' = loginCall
          ELSE /\ nextSalt < FirstSalt + MaxHashes
               /\ Len(auditLogs) < MaxAppEvents
               /\ form' = [isLoading |-> TRUE, error |-> ""]
               /\ loginCall' = [pc |-> "hashing",
                                inputToken |-> sanitizeInput(trim(text)),
                                tokenHash |-> <<>>]
       /\ ret' = [op |-> "handleSubmit", text |-> text,
                  allowed |-> rateCheck.allowed,
                  locked |-> Phase(rateLimitStore, "login", now) = "locked"]
    /\ UNCHANGED <<clockVars, rlCalls, rlLastCallAt, afterReset, rlWindowStart, rlConfig, storeVars,
                   lockVars, adminHash, session, nextSalt, persistVars>>

\* login() returns `success` to handleSubmit, which shows the outcome and
\* clears isLoading.
FinishLogin(success, sessionAfter, storageAfter, event, details) ==
    /\ session' = sessionAfter
    /\ localStorage' = storageAfter
    /\ auditLogs' = logAuditEvent(auditLogs, event, details)
    /\ form' = [isLoading |-> FALSE,
                error |-> IF success THEN "" ELSE "Invalid access token"]
    /\ loginCall' = IdleLogin
    /\ ret' = [op |-> "login", inputToken |-> loginCall.inputToken,
               result |-> success, threw |-> FALSE, event |-> event,
               sessionBefore |-> session,
               usersBefore |-> StoredUsers(localStorage),
               registered |-> RecordsOfToken(localStorage, loginCall.inputToken)]

SessionOf(user, token) ==
    [isAuthenticated |-> TRUE, user |-> Some(user), token |-> Some(token)]

\* The branch `if (userData)` of login().
LoginFound(userData) ==
    FinishLogin(TRUE, SessionOf(userData, loginCall.inputToken),
                [localStorage EXCEPT !.authToken = Some(loginCall.inputToken)],
                "LOGIN_SUCCESS", [uuid |-> userData.uuid])

\* The branch of login() after verifyToken returned true: createUser as
\* admin, the permissions raised on the object in memory.
LoginAdmin(uuid, tokenHash) ==
    LET created == createUser(localStorage, uuid, tokenHash, "admin", now)
        adminUser == [created.user EXCEPT !.permissions = ADMIN_PERMISSIONS]
    IN  FinishLogin(TRUE, SessionOf(adminUser, loginCall.inputToken),
                    [created.ls EXCEPT !.authToken = Some(loginCall.inputToken)],
                    "ADMIN_LOGIN_SUCCESS", [uuid |-> adminUser.uuid])

\* The end of login(): LOGIN_FAILED, false.
LoginFailed ==
    FinishLogin(FALSE, session, localStorage, "LOGIN_FAILED",
                [reason |-> "Invalid token"])

\* A slip: no catch block in login(); the error reaches handleSubmit, whose
\* own catch block shows it.
LoginErrorUncaught ==
    /\ session' = session
    /\ localStorage' = localStorage
    /\ auditLogs' = auditLogs
    /\ form' = [isLoading |-> FALSE, error |-> "Authentication failed"]
    /\ loginCall' = IdleLogin
    /\ ret' = [op |-> "login", inputToken |-> loginCall.inputToken,
               result |-> FALSE, threw |-> TRUE, event |-> "none",
               sessionBefore |-> session,
               usersBefore |-> StoredUsers(localStorage),
               registered |-> RecordsOfToken(localStorage, loginCall.inputToken)]

\* The catch block of login(): LOGIN_ERROR, false.
LoginError ==
    FinishLogin(FALSE, session, localStorage, "LOGIN_ERROR",
                [error |-> "SyntaxError"])

\* hashToken resolves in login(): findUserByTokenHash, then the record
\* found, or the environment's admin token.  The store's await points are
\* microtasks: no event of the page comes between them.  With no admin
\* token set, or with the token being it, login() ends here; otherwise
\* verifyToken awaits a key derivation.  `salt` is the salt hashToken drew.
LoginHashedWith(salt) ==
    /\ loginCall.pc = "hashing"
    /\ nextSalt' = nextSalt + 1
    /\ LET tokenHash == hashToken(loginCall.inputToken, salt)
           found == findUserByTokenHash(localStorage, tokenHash)
       IN  IF found.threw THEN LoginError
           ELSE IF found.value # None THEN LoginFound(found.value[1])
           ELSE IF ~Configured(adminHash) THEN LoginFailed
           ELSE IF verifyTokenIsAdmin(loginCall.inputToken, adminHash)
           THEN \E uuid \in FreshUuids : LoginAdmin(uuid, tokenHash)
           ELSE /\ loginCall' = [loginCall EXCEPT !.pc = "verifying",
                                                  !.tokenHash = tokenHash]
                /\ ret' = NoReturn
                /\ UNCHANGED <<session, localStorage, auditLogs, form>>
    /\ UNCHANGED <<clockVars, rlVars, lockVars, adminHash, persistVars>>

\* A slip: hashToken draws the same salt every time.
LoginHashedSameSalt == LoginHashedWith(FirstSalt)

\* hashToken resolves in login(), having drawn a salt never drawn before.
LoginHashed == LoginHashedWith(nextSalt)

\* The key derivation of verifyToken resolves (the dummy one, drawn with a
\* salt that is thrown away, or the one under the admin hash's salt).
LoginVerified ==
    /\ loginCall.pc = "verifying"
    /\ IF verifyTokenDerived(loginCall.inputToken, EnvText(adminHash))
       THEN \E uuid \in FreshUuids : LoginAdmin(uuid, loginCall.tokenHash)
       ELSE LoginFailed
    /\ UNCHANGED <<clockVars, rlVars, lockVars, adminHash, nextSalt, persistVars>>

\* A slip: logout() leaves auth_token in localStorage.
logoutSessionOnly ==
    /\ session.isAuthenticated
    /\ Len(auditLogs) < MaxAppEvents
    /\ auditLogs' = logAuditEvent(auditLogs, "LOGOUT", [uuid |-> session.user[1].uuid])
    /\ session' = NoSession
    /\ ret' = [op |-> "logout"]
    /\ UNCHANGED <<clockVars, rlVars, storeVars, lockVars, adminHash, form,
                   loginCall, nextSalt, persistVars>>

\* logout(), from the sidebar of an authenticated page.
logout ==
    /\ session.isAuthenticated
    /\ Len(auditLogs) < MaxAppEvents
    /\ auditLogs' = IF session.user # None
                    THEN logAuditEvent(auditLogs, "LOGOUT",
                                       [uuid |-> session.user[1].uuid])
                    ELSE auditLogs
    /\ session' = NoSession
    /\ localStorage' = [localStorage EXCEPT !.authToken = None]
    /\ ret' = [op |-> "logout"]
    /\ UNCHANGED <<clockVars, rlVars, lockVars, adminHash, form, loginCall,
                   nextSalt, persistVars>>

\* generateToken of the admin panel, which renders for an admin only: the
\* timer's callback draws a token, hashes it and creates the user.  Nothing
\* is written before createUser, so the callback is one step.
generateToken(newToken, selectedRole) ==
    /\ session.isAuthenticated /\ isAdmin(session.user)
    /\ nextSalt < FirstSalt + MaxHashes
    /\ Len(auditLogs) < MaxAppEvents
    /\ \E uuid \in FreshUuids :
           LET tokenHash == hashToken(newToken, nextSalt)
               created == createUser(localStorage, uuid, tokenHash,
                                     selectedRole, now)
           IN  /\ localStorage' = created.ls
               /\ ret' = [op |-> "generateToken", token |-> newToken,
                          user |-> created.user]
    /\ nextSalt' = nextSalt + 1
    /\ auditLogs' = logAuditEvent(auditLogs, "TOKEN_GENERATED",
                                  [role |-> selectedRole])
    /\ UNCHANGED <<clockVars, rlVars, lockVars, adminHash, session, form,
                   loginCall, persistVars>>

\* verifyAdminToken(token)
verifyAdminToken(token) ==
    /\ ~Configured(adminHash) => Len(auditLogs) < MaxAppEvents
    /\ auditLogs' = IF ~Configured(adminHash)
                    THEN logAuditEvent(auditLogs, "ADMIN_VERIFY_FAILED",
                                       [reason |-> "No admin hash configured"])
                    ELSE auditLogs
    /\ ret' = [op |-> "verifyAdminToken", token |-> token,
               result |-> IF Configured(adminHash)
                          THEN constantTimeEqual(token, EnvText(adminHash))
                          ELSE FALSE]
    /\ UNCHANGED <<clockVars, rlVars, storeVars, lockVars, appVars, persistVars>>

\* The record a token generated in an earlier session left in localStorage.
IssuedRecord == NewUserData(UuidA, hashToken(IssuedToken, 1), "user", 0)
InitialStorages == {EmptyStorage, saveUserData(EmptyStorage, IssuedRecord).ls}

\* The clock advances of the application runs: a lockout's time.
AppDeltas == {LOCKOUT_DURATION}

\* The roles the admin panel's generator is used with, and the tokens
\* verifyAdminToken is called with.
AppRoles == {"user"}
AdminCandidates == {BootstrapSecret, <<>>}

\* A storage whose one user item was overwritten with a text that is no
\* JSON.
CorruptStorage ==
    [index |-> Some(JsonStringify(<<UuidB>>)),
     items |-> (getUserKey(UuidB) :> [corrupt |-> "{"]),
     authToken |-> None]

\* The time a reload of the page takes.
ReloadDeltas == {1}

\* Time passes while the application runs.
AppTick(d) == ticks < MaxAppTicks /\ Tick(d)

\* ------------------------------------------------- sequential use, reloads

\* What the records of a storage were last saved as, before this page load.
SavedIn(storage) ==
    [k \in {i \in DOMAIN storage.items : JsonParses(storage.items[i])} |->
        [data |-> JsonParse(storage.items[k]), load |-> 0 - 1]]

\* The record last saved under each uuid, after a store operation.
LastSavedAfter(op, arg, out) ==
    IF out.threw THEN lastSaved
    ELSE IF op \in {"saveUserData", "createUser", "updateUser"}
    THEN (arg.uuid.text :> [data |-> arg, load |-> reloads]) @@ lastSaved
    ELSE IF op = "deleteUser"
    THEN [k \in DOMAIN lastSaved \ {arg.text} |-> lastSaved[k]]
    ELSE IF op = "clearAllData" THEN <<>>
    ELSE lastSaved

\* A caller awaits a store operation while nothing else runs: acquireLock,
\* the try block and release() follow each other in the microtask queue.
Await(op, arg, key) ==
    /\ ~LockHeld(locks, key)
    /\ LET a == acquireLock(locks, <<>>, "c1", key)
           out == StoreBody(op, localStorage, arg)
           r == ReleaseFinally(a.locks, <<>>, key, out)
       IN  /\ locks' = r.locks
           /\ localStorage' = out.ls
           /\ lastSaved' = LastSavedAfter(op, arg, out)
           /\ ret' = [op |-> op, arg |-> arg, threw |-> out.threw,
                      value |-> out.value]
    /\ UNCHANGED <<clockVars, rlVars, auditLogs, microtasks, procs, acqOrder,
                   appVars, validating, reloads>>

AwaitSaveUserData(userData) ==
    Await("saveUserData", userData, UserLockKey(userData.uuid))

AwaitLoadUserData(uuid) == Await("loadUserData", uuid, UserLockKey(uuid))

AwaitDeleteUser(uuid) == Await("deleteUser", uuid, UserLockKey(uuid))

AwaitFindUserByTokenHash(tokenHash) ==
    Await("findUserByTokenHash", tokenHash, SearchLockKey)

AwaitListAllUsers == Await("listAllUsers", None, ListLockKey)

AwaitClearAllData == Await("clearAllData", None, ClearLockKey)

\* createUser(tokenHash, role), awaited.
AwaitCreateUser(tokenHash, role) ==
    \E uuid \in FreshUuids :
        Await("createUser", NewUserData(uuid, tokenHash, role, now),
              UserLockKey(uuid))

\* updateUser(userData), awaited.
AwaitUpdateUser(userData) ==
    Await("updateUser", [userData EXCEPT !.lastAccess = ToISOString(now)],
          UserLockKey(userData.uuid))

\* A slip: the rate limiter's map outlives the reload.
ReloadKeepingRateLimit(d) ==
    /\ ticks < MaxAppTicks
    /\ localStorage.authToken # None => nextSalt < FirstSalt + MaxHashes
    /\ now' = now + d
    /\ ticks' = ticks + 1
    /\ reloads' = reloads + 1
    /\ auditLogs' = <<>>
    /\ locks' = <<>>
    /\ microtasks' = <<>>
    /\ procs' = [p \in Callers |-> IdleProc]
    /\ acqOrder' = <<>>
    /\ session' = [isAuthenticated |-> FALSE, user |-> None,
                   token |-> localStorage.authToken]
    /\ form' = IdleForm
    /\ loginCall' = IdleLogin
    /\ validating' = localStorage.authToken
    /\ ret' = [op |-> "reload",
               locked |-> {x \in Identifiers :
                              Phase(rateLimitStore, x, now) = "locked"}]
    /\ UNCHANGED <<rlVars, localStorage, adminHash, nextSalt, lastSaved>>

\* The page is reloaded: the modules' memory (the rate-limit map, the audit
\* log, the lock table, pending calls, the session, the form) starts anew;
\* localStorage and the build's environment stay.  AuthProvider reads
\* auth_token and, if there is one, starts validateSession.  Reloading
\* takes time, d milliseconds.
Reload(d) ==
    /\ ticks < MaxAppTicks
    /\ localStorage.authToken # None => nextSalt < FirstSalt + MaxHashes
    /\ now' = now + d
    /\ ticks' = ticks + 1
    /\ reloads' = reloads + 1
    /\ rateLimitStore' = <<>>
    /\ rlCalls' = [x \in Identifiers |-> 0]
    /\ rlLastCallAt' = [x \in Identifiers |-> 0]
    /\ rlWindowStart' = [x \in Identifiers |-> 0]
    /\ afterReset' = [x \in Identifiers |-> "no"]
    /\ auditLogs' = <<>>
    /\ locks' = <<>>
    /\ microtasks' = <<>>
    /\ procs' = [p \in Callers |-> IdleProc]
    /\ acqOrder' = <<>>
    /\ session' = [isAuthenticated |-> FALSE, user |-> None,
                   token |-> localStorage.authToken]
    /\ form' = IdleForm
    /\ loginCall' = IdleLogin
    /\ validating' = localStorage.authToken
    /\ ret' = [op |-> "reload",
               locked |-> {x \in Identifiers :
                              Phase(rateLimitStore, x, now) = "locked"}]
    /\ UNCHANGED <<rlConfig, localStorage, adminHash, nextSalt, lastSaved>>

\* hashToken resolves in validateSession(): findUserByTokenHash, then the
\* session is set from the record found, or auth_token is removed.
SessionValidated ==
    /\ validating # None
    /\ nextSalt' = nextSalt + 1
    /\ validating' = None
    /\ LET storedToken == validating[1]
           tokenHash == hashToken(storedToken, nextSalt)
           found == findUserByTokenHash(localStorage, tokenHash)
           userData == IF found.threw THEN None ELSE found.value
       IN  /\ IF userData # None
              THEN /\ session' = SessionOf(userData[1], storedToken)
                   /\ localStorage' = localStorage
              ELSE /\ session' = session
                   /\ localStorage' = [localStorage EXCEPT !.authToken = None]
           /\ ret' = [op |-> "validateSession", storedToken |-> storedToken,
                      authTokenBefore |-> localStorage.authToken,
                      registered |-> RecordsOfToken(localStorage, storedToken)]
    /\ UNCHANGED <<clockVars, rlVars, auditLogs, lockVars, adminHash, form,
                   loginCall, reloads, lastSaved>>

\* ------------------------------------------------------ token verification

\* The texts hashToken and verifyToken are called with; verifyToken is
\* called with null as well.
VerifyTexts == {BootstrapSecret, HashedSecret, IssuedToken}

\* The hashes verifyToken is called with.  Hashes hashToken produced in
\* earlier sessions, under the salts drawn then; texts that are no hash of
\* hashToken's (a plain word, the empty text, six parts under another tag);
\* hashes on which the parsing or the derivation raises; and a hash whose
\* salt is no hex text.
RaisingHashes ==
    {<<"$", "pbkdf2", "$", "sha256", "$", "abc", "$", "salt0", "$", "00ff">>,
     <<"$", "pbkdf2", "$", "sha256", "$", "$", "salt0", "$", "00ff">>,
     <<"$", "pbkdf2", "$", "sha256", "$", "100000", "$", "$", "00ff">>}
VerifyHashes ==
    {hashToken(t, salt) : t \in VerifyTexts, salt \in 0..(FirstSalt - 1)}
        \cup {<<"h", "a", "s", "h">>,
              <<>>,
              <<"$", "bcrypt", "$", "sha256", "$", "100000", "$", "salt0", "$", "00ff">>}
        \cup RaisingHashes
        \cup {<<"$", "pbkdf2", "$", "sha256", "$", "100000", "$", "zz", "$", "00ff">>}

\* await hashToken(token): a salt is drawn and the encoded hash returned.
CallHashToken(token) ==
    /\ nextSalt < FirstSalt + MaxHashes
    /\ nextSalt' = nextSalt + 1
    /\ ret' = [op |-> "hashToken", token |-> token, salt |-> nextSalt,
               hash |-> hashToken(token, nextSalt)]
    /\ UNCHANGED <<clockVars, rlVars, auditLogs, storeVars, lockVars,
                   adminHash, session, form, loginCall, persistVars>>

\* await verifyToken(token, hash), in a try of the caller's.
CallVerifyToken(token, hash) ==
    /\ ret' = [op |-> "verifyToken", token |-> token, hash |-> hash,
               out |-> verifyToken(token, hash, adminHash)]
    /\ UNCHANGED <<clockVars, rlVars, auditLogs, storeVars, lockVars,
                   appVars, persistVars>>

\* ------------------------------------------------------------------ cipher

\* A string is its sequence of UTF-16 code units, a byte array a sequence of
\* numbers in 0..255.

\* new TextEncoder().encode(str): the UTF-8 bytes of the string's scalar
\* values; a surrogate pair is one code point, a surrogate alone is replaced
\* by U+FFFD.
RECURSIVE TextEncoderEncode(_)
TextEncoderEncode(str) ==
    LET Utf8Bytes(cp) ==
            IF cp < 128 THEN <<cp>>
            ELSE IF cp < 2048 THEN <<192 + (cp \div 64), 128 + (cp % 64)>>
            ELSE IF cp < 65536
                 THEN <<224 + (cp \div 4096), 128 + ((cp \div 64) % 64),
                        128 + (cp % 64)>>
                 ELSE <<240 + (cp \div 262144), 128 + ((cp \div 4096) % 64),
                        128 + ((cp \div 64) % 64), 128 + (cp % 64)>>
        IsHighSurrogate(c) == c \in 55296..56319
        IsLowSurrogate(c) == c \in 56320..57343
    IN  IF Len(str) = 0 THEN <<>>
        ELSE LET c == Head(str) IN
             IF IsHighSurrogate(c)
             THEN IF Len(str) = 1 THEN Utf8Bytes(65533)
                  ELSE IF IsLowSurrogate(str[2])
                       THEN Utf8Bytes(65536 + (c - 55296) * 1024 + (str[2] - 56320))
                                \o TextEncoderEncode(Tail(Tail(str)))
                       ELSE Utf8Bytes(65533) \o TextEncoderEncode(Tail(str))
             ELSE IF IsLowSurrogate(c)
                  THEN Utf8Bytes(65533) \o TextEncoderEncode(Tail(str))
                  ELSE Utf8Bytes(c) \o TextEncoderEncode(Tail(str))

\* The string a byte array is the UTF-8 form of.  A sequence of n bytes is
\* well formed when it is all there, its trailing bytes are continuation
\* bytes, and it is the shortest form of a scalar value; a byte that starts
\* no well-formed sequence gives U+FFFD.
RECURSIVE Utf8Decode(_)
Utf8Decode(bytes) ==
    LET Utf8Length(b) ==
            IF b < 128 THEN 1
            ELSE IF b \in 194..223 THEN 2
            ELSE IF b \in 224..239 THEN 3
            ELSE IF b \in 240..244 THEN 4
            ELSE 0
        Utf8CodePoint(n) ==
            IF n = 1 THEN bytes[1]
            ELSE IF n = 2 THEN (bytes[1] - 192) * 64 + (bytes[2] - 128)
            ELSE IF n = 3
                 THEN (bytes[1] - 224) * 4096 + (bytes[2] - 128) * 64
                          + (bytes[3] - 128)
                 ELSE (bytes[1] - 240) * 262144 + (bytes[2] - 128) * 4096
                          + (bytes[3] - 128) * 64 + (bytes[4] - 128)
        Utf8WellFormed(n) ==
            IF n = 0 THEN FALSE
            ELSE IF Len(bytes) < n THEN FALSE
            ELSE IF \E i \in 2..n : bytes[i] \notin 128..191 THEN FALSE
            ELSE LET cp == Utf8CodePoint(n) IN
                 /\ (n = 2 => cp >= 128)
                 /\ (n = 3 => cp >= 2048 /\ cp \notin 55296..57343)
                 /\ (n = 4 => cp >= 65536 /\ cp <= 1114111)
        CodeUnits(cp) ==
            IF cp >= 65536
            THEN <<55296 + ((cp - 65536) \div 1024), 56320 + ((cp - 65536) % 1024)>>
            ELSE <<cp>>
    IN  IF Len(bytes) = 0 THEN <<>>
        ELSE LET n == Utf8Length(Head(bytes)) IN
             IF Utf8WellFormed(n)
             THEN CodeUnits(Utf8CodePoint(n))
                      \o Utf8Decode(SubSeq(bytes, n + 1, Len(bytes)))
             ELSE <<65533>> \o Utf8Decode(Tail(bytes))

\* A decoder made without ignoreBOM drops a byte order mark (U+FEFF) at the
\* head of its input.
StripBOM(str) ==
    IF Len(str) = 0 THEN str ELSE IF Head(str) = 65279 THEN Tail(str) ELSE str

\* new TextDecoder().decode(bytes)
TextDecoderDecode(bytes) == StripBOM(Utf8Decode(bytes))

\* importKey and deriveKey: the AES key PBKDF2-SHA256 derives from the
\* passphrase's bytes under the salt; different bytes or another salt give
\* another key.
deriveKey(password, salt) ==
    [password |-> TextEncoderEncode(password), salt |-> salt,
     iterations |-> PBKDF2_ITERATIONS]

\* The tag of AES-GCM over a ciphertext, under (key, iv); `flip` is what was
\* added to it since.
Tag(key, iv, ciphertext) == [tag |-> <<key, iv, ciphertext>>, flip |-> 0]

\* crypto.subtle.encrypt: the ciphertext with the tag appended.  Byte i of
\* the ciphertext is the plaintext's byte i under the key stream of (key,
\* iv) at i.
AesGcmEncrypt(key, iv, data) ==
    LET ciphertext ==
            [i \in 1..Len(data) |-> [stream |-> <<key, iv, i>>, x |-> data[i]]]
    IN  [ciphertext |-> ciphertext, tag |-> Tag(key, iv, ciphertext)]

\* A slip: the tag is not looked at.
AesGcmDecryptUnchecked(key, iv, data) ==
    [threw |-> FALSE,
     value |-> [i \in 1..Len(data.ciphertext) |-> data.ciphertext[i].x]]

\* crypto.subtle.decrypt: the plaintext when the tag is the one of the
\* ciphertext under (key, iv), an OperationError otherwise.
AesGcmDecrypt(key, iv, data) ==
    IF data.tag = Tag(key, iv, data.ciphertext)
    THEN [threw |-> FALSE,
          value |-> [i \in 1..Len(data.ciphertext) |-> data.ciphertext[i].x]]
    ELSE [threw |-> TRUE, value |-> "OperationError"]

\* encryptApiKey(key, password), with the salt and the iv it draws.
encryptApiKey(key, password, salt, iv) ==
    LET data == TextEncoderEncode(key)
        derivedKey == deriveKey(password, salt)
        encrypted == AesGcmEncrypt(derivedKey, iv, data)
    IN  JsonStringify([salt |-> salt, iv |-> iv, data |-> encrypted])

\* decryptApiKey(encryptedData, password)
decryptApiKey(encryptedData, password) ==
    LET parsed == JsonParse(encryptedData)
        derivedKey == deriveKey(password, parsed.salt)
        decrypted == AesGcmDecrypt(derivedKey, parsed.iv, parsed.data)
    IN  IF decrypted.threw THEN decrypted
        ELSE [threw |-> FALSE, value |-> TextDecoderDecode(decrypted.value)]

\* The secrets encrypted: "ab", "ab" behind a byte order mark, U+1F600 as
\* its surrogate pair, the empty string, and U+FFFD.
Secrets == {<<97, 98>>, <<65279, 97, 98>>, <<55357, 56832>>, <<>>, <<65533>>}

\* The passphrases: "p", "q", a high surrogate alone, and U+FFFD.
Passphrases == {<<112>>, <<113>>, <<55296>>, <<65533>>}

\* The salts and the ivs getRandomValues may give.
RandomBytes == {0, 1}

\* What is added to a byte to alter it.
Flips == {1, 128}

\* await encryptApiKey(key, password)
CallEncryptApiKey(key, password) ==
    /\ \E salt \in RandomBytes, iv \in RandomBytes :
           ret' = [op |-> "encryptApiKey", key |-> key, password |-> password,
                   altered |-> FALSE,
                   blob |-> encryptApiKey(key, password, salt, iv)]
    /\ UNCHANGED <<clockVars, rlVars, auditLogs, storeVars, lockVars,
                   appVars, persistVars>>

\* One byte of the stored blob's ciphertext is altered.
AlterCiphertext(i, flip) ==
    /\ ret.op = "encryptApiKey"
    /\ ~ret.altered
    /\ i \in 1..Len(ret.blob.json.data.ciphertext)
    /\ ret' = [ret EXCEPT !.altered = TRUE,
                          !.blob.json.data.ciphertext[i].x = (@ + flip) % 256]
    /\ UNCHANGED <<clockVars, rlVars, auditLogs, storeVars, lockVars,
                   appVars, persistVars>>

\* One byte of the stored blob's tag is altered.
AlterTag(flip) ==
    /\ ret.op = "encryptApiKey"
    /\ ~ret.altered
    /\ ret' = [ret EXCEPT !.altered = TRUE, !.blob.json.data.tag.flip = flip]
    /\ UNCHANGED <<clockVars, rlVars, auditLogs, storeVars, lockVars,
                   appVars, persistVars>>

\* await decryptApiKey(blob, password), in a try of the caller's.
CallDecryptApiKey(password) ==
    /\ ret.op = "encryptApiKey"
    /\ ret' = [op |-> "decryptApiKey", key |-> ret.key,
               encryptedWith |-> ret.password, password |-> password,
               altered |-> ret.altered,
               out |-> decryptApiKey(ret.blob, password)]
    /\ UNCHANGED <<clockVars, rlVars, auditLogs, storeVars, lockVars,
                   appVars, persistVars>>

\* -------------------------------------------------------------- comparators

\* constantTimeEqual of auth.ts: the strings' UTF-8 bytes are compared, false
\* on different byte lengths, else the OR of the XORs of the bytes is zero.
constantTimeEqualBytes(a, b) ==
    LET aBytes == TextEncoderEncode(a)
        bBytes == TextEncoderEncode(b)
    IN  IF Len(aBytes) # Len(bBytes) THEN FALSE
        ELSE \A i \in 1..Len(aBytes) : aBytes[i] = bBytes[i]

\* The strings compared, as code units: '', 'a', 'b', 'ab', 'aa', 'ba',
\* 'abc', U+00E9, U+1F600 as its surrogate pair, a high and a low surrogate
\* alone, and U+FFFD.
CompareTexts ==
    {<<>>, <<97>>, <<98>>, <<97, 98>>, <<97, 97>>, <<98, 97>>, <<97, 98, 99>>,
     <<233>>, <<55357, 56832>>, <<55296>>, <<56320>>, <<65533>>}

\* Both comparators are called with the same two strings.
CallConstantTimeEqual(a, b) ==
    /\ ret' = [op |-> "constantTimeEqual", a |-> a, b |-> b,
               crypto |-> constantTimeEqual(a, b),
               auth |-> constantTimeEqualBytes(a, b)]
    /\ UNCHANGED <<clockVars, rlVars, auditLogs, storeVars, lockVars,
                   appVars, persistVars>>

\* ------------------------------------------------------------ specifications

InitConfigured(env, storage, config) ==
    /\ now = 0
    /\ ticks = 0
    /\ rateLimitStore = <<>>
    /\ auditLogs = <<>>
    /\ ret = NoReturn
    /\ rlCalls = [x \in Identifiers |-> 0]
    /\ rlLastCallAt = [x \in Identifiers |-> 0]
    /\ rlWindowStart = [x \in Identifiers |-> 0]
    /\ rlConfig = config
    /\ afterReset = [x \in Identifiers |-> "no"]
    /\ localStorage = storage
    /\ locks = <<>>
    /\ microtasks = <<>>
    /\ procs = [p \in Callers |-> IdleProc]
    /\ acqOrder = <<>>
    /\ adminHash = env
    /\ session = NoSession
    /\ form = IdleForm
    /\ loginCall = IdleLogin
    /\ nextSalt = FirstSalt
    /\ validating = None
    /\ reloads = 0
    /\ lastSaved = SavedIn(storage)

\* The build as the source configures it.
InitWith(env, storage) == InitConfigured(env, storage, CodeConfig)

\* The page loaded with nothing stored and no admin token set.
Init == InitWith(None, EmptyStorage)

\* The page loaded under any setting of the admin token, with or without a
\* record in localStorage.
InitApp == \E env \in AdminHashes, storage \in InitialStorages : InitWith(env, storage)

\* The rate limiter alone, under every order of calls and clock advances.
NextRateLimit ==
    \/ \E x \in Identifiers : CheckRateLimit(x)
    \/ \E x \in Identifiers : ResetRateLimit(x)
    \/ \E d \in Deltas : Tick(d)

SpecRateLimit == Init /\ [][NextRateLimit]_vars

\* Builds with other durations: the source's, equal ones, a lockout shorter
\* than the window, and a short window.
Configs ==
    {CodeConfig,
     [window |-> RATE_LIMIT_WINDOW, lockout |-> RATE_LIMIT_WINDOW],
     [window |-> LOCKOUT_DURATION, lockout |-> RATE_LIMIT_WINDOW],
     [window |-> 999, lockout |-> RATE_LIMIT_WINDOW]}

InitRateConfig == \E config \in Configs : InitConfigured(None, EmptyStorage, config)

\* The rate limiter of such a build, the clock advancing by a millisecond,
\* by the window and by the lockout.
NextRateConfig ==
    \/ \E x \in Identifiers : CheckRateLimit(x)
    \/ \E d \in {1, rlConfig.window, rlConfig.lockout} : Tick(d)

SpecRateConfig == InitRateConfig /\ [][NextRateConfig]_vars

\* The rate limiter across a reload of the page, as time passes.
NextRestart ==
    \/ \E x \in Identifiers : CheckRateLimit(x)
    \/ \E d \in ReloadDeltas : Reload(d)
    \/ \E d \in Deltas : Tick(d)

SpecRestart == Init /\ [][NextRestart]_vars

\* The record store under callers that each call one of its operations, at
\* any moment the event loop lets them.
NextStore ==
    \/ \E p \in Callers, u \in TestUsers : CallSaveUserData(p, u)
    \/ \E p \in Callers, id \in CallerIds : CallLoadUserData(p, id)
    \/ \E p \in Callers, h \in TestHashes : CallFindUserByTokenHash(p, h)
    \/ \E p \in Callers, id \in CallerIds : CallDeleteUser(p, id)
    \/ \E p \in Callers : CallListAllUsers(p)
    \/ \E p \in Callers : CallClearAllData(p)
    \/ \E p \in Callers, h \in TestHashes, r \in TestRoles : CallCreateUser(p, h, r)
    \/ \E p \in Callers, u \in TestUsers : CallUpdateUser(p, u)
    \/ \E p \in Callers : RunBody(p)
    \/ \E p \in Callers : Wake(p)
    \/ \E p \in Callers : Return(p)

SpecStore == Init /\ [][NextStore]_vars

\* The event loop runs the job at the head of the microtask queue.
RunJob == \E p \in Callers : RunBody(p) \/ Wake(p) \/ Return(p)

\* The operations that save, called again and again at any moment the
\* event loop lets a caller run, with a valid id and with one that makes
\* the try block throw.
NextProgress ==
    \/ \E p \in Callers, u \in TestUsers :
           u.uuid \in {UuidA, NotAUuid} /\ CallSaveUserData(p, u)
    \/ \E p \in Callers, h \in TestHashes : CallCreateUser(p, h, "user")
    \/ \E p \in Callers, u \in TestUsers :
           u.uuid \in {UuidA, NotAUuid} /\ CallUpdateUser(p, u)
    \/ \E p \in Callers : RunBody(p)
    \/ \E p \in Callers : Wake(p)
    \/ \E p \in Callers : Return(p)
    \/ \E p \in Callers : GoOn(p)

\* The same under an event loop that never stops running jobs.
SpecProgress == Init /\ [][NextProgress]_vars /\ WF_vars(RunJob)

\* The application: the login form, login(), logout(), the admin panel's
\* token generator, verifyAdminToken, and reloads of the page with their
\* validateSession, as time passes.
NextApp ==
    \/ \E text \in FormTexts : HandleSubmit(text)
    \/ LoginHashed
    \/ LoginVerified
    \/ logout
    \/ \E t \in GeneratedTokens, r \in AppRoles : generateToken(t, r)
    \/ \E t \in AdminCandidates : verifyAdminToken(t)
    \/ \E d \in ReloadDeltas : Reload(d)
    \/ SessionValidated
    \/ \E d \in AppDeltas : AppTick(d)

SpecApp == InitApp /\ [][NextApp]_vars

\* The store used by one caller that awaits each operation, across
\* reloads of the page, as time passes.
NextPersist ==
    \/ \E u \in TestUsers : AwaitSaveUserData(u)
    \/ \E id \in CallerIds : AwaitLoadUserData(id)
    \/ \E id \in CallerIds : AwaitDeleteUser(id)
    \/ \E h \in TestHashes : AwaitFindUserByTokenHash(h)
    \/ AwaitListAllUsers
    \/ AwaitClearAllData
    \/ \E h \in TestHashes, r \in TestRoles : AwaitCreateUser(h, r)
    \/ \E u \in TestUsers : AwaitUpdateUser(u)
    \/ \E d \in ReloadDeltas : Reload(d)
    \/ \E d \in AppDeltas : AppTick(d)

SpecPersist == Init /\ [][NextPersist]_vars

InitVerify == \E env \in AdminHashes : InitWith(env, EmptyStorage)

NextVerify ==
    \/ \E t \in VerifyTexts : CallHashToken(t)
    \/ \E t \in {None} \cup {Some(text) : text \in VerifyTexts},
           h \in VerifyHashes \cup (IF ret.op = "hashToken" THEN {ret.hash} ELSE {}) :
           CallVerifyToken(t, h)

SpecVerify == InitVerify /\ [][NextVerify]_vars

NextCrypto ==
    \/ \E key \in Secrets, password \in Passphrases : CallEncryptApiKey(key, password)
    \/ \E i \in 1..4, flip \in Flips : AlterCiphertext(i, flip)
    \/ \E flip \in Flips : AlterTag(flip)
    \/ \E password \in Passphrases : CallDecryptApiKey(password)

SpecCrypto == Init /\ [][NextCrypto]_vars

\* Logins alone, on a store that may be corrupt; the salt hashToken draws
\* is any salt, one drawn before included.
InitLogin ==
    \E env \in AdminHashes, storage \in InitialStorages \cup {CorruptStorage} :
        InitWith(env, storage)

NextLogin ==
    \/ \E text \in FormTexts : HandleSubmit(text)
    \/ \E salt \in 0..nextSalt : LoginHashedWith(salt)
    \/ LoginVerified
    \/ logout
    \/ \E d \in AppDeltas : AppTick(d)

SpecLogin == InitLogin /\ [][NextLogin]_vars

\* Logins under a configured secret, one of them with a character that
\* sanitizeInput rewrites, on an empty store.
PunctuatedSecret == <<"a", "/", "b">>

InitForm ==
    \E env \in {Some(BootstrapSecret), Some(PunctuatedSecret)} :
        InitWith(env, EmptyStorage)

SpecForm == InitForm /\ [][NextLogin]_vars

NextCompare == \E a \in CompareTexts, b \in CompareTexts : CallConstantTimeEqual(a, b)

SpecCompare == Init /\ [][NextCompare]_vars

\* -------------------------------------------------------------------- claims

\* C1: from no state, the first 5 checks of an identifier, each within the
\* window of the one before, return allowed with retryAfter 0; the 6th
\* returns not allowed with retryAfter 3600; and the first check made at or
\* after lockedUntil returns allowed again.
C1_FiveAllowedSixthLockedThenAllowed ==
    \A x \in Identifiers :
        (ret.op = "checkRateLimit" /\ ret.id = x) =>
            /\ rlCalls[x] \in 1..5 => (ret.allowed /\ ret.retryAfter = 0)
            /\ rlCalls[x] = 6 => (~ret.allowed /\ ret.retryAfter = 3600)
            /\ ret.expired => ret.allowed

\* The check that found a lock whose time had come, after a lockout that was
\* logged.
C1_Witness ==
    /\ ret.op = "checkRateLimit"
    /\ ret.expired /\ ret.allowed
    /\ Len(auditLogs) >= 1

\* C6: a check of an identifier that is locked (lockedUntil non-null and
\* now < lockedUntil) returns not allowed with
\* retryAfter = ceil((lockedUntil - now) / 1000) >= 1 and leaves the
\* identifier's state as it was, whatever time has passed since the last
\* attempt.
C6_LockedCheckRejectedStateUnchanged ==
    [][\A x \in Identifiers :
          ( /\ x \in DOMAIN rateLimitStore
            /\ rateLimitStore[x].lockedUntil # NullTime
            /\ now < rateLimitStore[x].lockedUntil
            /\ CheckRateLimit(x) )
          => /\ x \in DOMAIN rateLimitStore'
             /\ rateLimitStore'[x] = rateLimitStore[x]
             /\ ret'.allowed = FALSE
             /\ ret'.retryAfter * 1000 >= rateLimitStore[x].lockedUntil - now
             /\ (ret'.retryAfter - 1) * 1000 < rateLimitStore[x].lockedUntil - now
             /\ ret'.retryAfter >= 1]_vars

\* A check rejected by the lock more than a window after the last attempt.
C6_Witness ==
    /\ ret.op = "checkRateLimit" /\ ret.branch = "locked"
    /\ ~ret.allowed
    /\ now - rateLimitStore[ret.id].lastAttempt > RATE_LIMIT_WINDOW

\* C7: the check that follows resetRateLimit(x), whatever state x was in,
\* returns allowed with retryAfter 0 and leaves attempts = 1 and
\* lockedUntil = null, as the first check ever made.
C7_CheckAfterResetIsFirstCheck ==
    (ret.op = "checkRateLimit" /\ ret.afterReset # "no") =>
        /\ ret.allowed /\ ret.retryAfter = 0
        /\ ret.id \in DOMAIN rateLimitStore
        /\ rateLimitStore[ret.id].attempts = 1
        /\ rateLimitStore[ret.id].lockedUntil = NullTime
        /\ rateLimitStore[ret.id].lastAttempt = now
        /\ rlCalls[ret.id] = 1

\* The check after a reset that found the identifier locked.
C7_Witness ==
    /\ ret.op = "checkRateLimit" /\ ret.afterReset = "locked"
    /\ ret.allowed

\* ------------------------------------------------------------ claims: locks

InProgress(p) == procs[p].pc \notin {"idle", "done"}

\* The callers whose acquireLock has completed and whose release() has not
\* yet run.
Holds(p, key) == procs[p].pc = "acquired" /\ procs[p].key = key

\* C8: per lock key there is at most one holder at any time; a caller whose
\* acquireLock found the key held has not completed it while the holder has
\* not released: the table still names the holder, and it is not the waiter.
C8_MutualExclusion ==
    /\ \A p, q \in Callers :
           (Holds(p, procs[p].key) /\ Holds(q, procs[p].key)) => p = q
    /\ \A p \in Callers :
           procs[p].pc = "waiting" =>
               /\ LockHeld(locks, procs[p].key)
               /\ locks[procs[p].key].holder # p
               /\ Holds(locks[procs[p].key].holder, procs[p].key)

\* A second caller acquired the key after waiting for the first to release,
\* while a third still waits.
C8_Witness ==
    \E p, q, w \in Callers :
        /\ p # q /\ procs[p].key = procs[q].key /\ procs[w].key = procs[q].key
        /\ procs[p].pc = "done"
        /\ procs[q].pc = "acquired" /\ procs[q].waited
        /\ procs[w].pc = "waiting"

\* C9: waiters are granted the lock in the order of their acquireLock
\* calls: whoever holds a key called acquireLock before every caller still
\* waiting for that key.
C9_FifoOrder ==
    \A p \in Callers :
        procs[p].pc = "acquired" =>
            \A i \in 1..Len(acqOrder) :
                (procs[acqOrder[i]].key = procs[p].key /\ acqOrder[i] # p) =>
                    \E j \in 1..(i - 1) : acqOrder[j] = p

\* C10: every store operation releases its lock on every exit path: a key
\* of the lock table is held by an operation still before its release, the
\* table is empty when no operation is in progress, and an operation that
\* threw left no lock behind.
C10_LocksReleased ==
    /\ \A key \in DOMAIN locks : Holds(locks[key].holder, key)
    /\ (\A p \in Callers : ~InProgress(p)) => DOMAIN locks = {}
    /\ \A p \in Callers :
           (procs[p].pc = "done" /\ procs[p].result.threw) =>
               (LockHeld(locks, procs[p].key) => locks[procs[p].key].holder # p)

\* An operation threw 'Invalid UUID format', and a later operation on the
\* same key, which had waited for it, has completed; nothing is in progress.
C10_Witness ==
    \E p, q \in Callers :
        /\ p # q /\ procs[p].key = procs[q].key
        /\ procs[p].pc = "done" /\ procs[p].result.threw
        /\ procs[p].result.value = "Invalid UUID format"
        /\ procs[q].pc = "done" /\ procs[q].waited
        /\ \A r \in Callers : ~InProgress(r)
        /\ DOMAIN locks = {}

\* ------------------------------------------------------ claims: application

\* The stored record with the session user's uuid is the session user, but
\* for the permissions, which login() raises in memory only.
IsStoredAs(user, stored) == [user EXCEPT !.permissions = stored.permissions] = stored

\* C2: after createUser(hashToken(T), r), login(T) returns true, the session
\* user is that record, and no new record is created.
C2_LoginWithIssuedToken ==
    (ret.op = "login" /\ ret.registered # {}) =>
        /\ ret.result
        /\ session.isAuthenticated
        /\ session.user # None
        /\ \E u \in ret.registered : session.user = Some(u)
        /\ StoredUsers(localStorage) = ret.usersBefore

\* C3: with an empty store and the bootstrap secret S configured, login(S)
\* returns true; afterwards the store holds exactly one record, its role is
\* admin, and the session user is that record.
C3_BootstrapLogin ==
    (/\ ret.op = "login"
     /\ ret.usersBefore = {}
     /\ Configured(adminHash)
     /\ ret.inputToken = EnvText(adminHash)) =>
        /\ ret.result
        /\ Cardinality(StoredUsers(localStorage)) = 1
        /\ session.isAuthenticated
        /\ session.user # None
        /\ \A u \in StoredUsers(localStorage) :
               /\ u.role = "admin"
               /\ IsStoredAs(session.user[1], u)

\* login(S) has returned on a store that was empty, S being the configured
\* secret.
C3_Witness ==
    /\ ret.op = "login"
    /\ ret.usersBefore = {}
    /\ adminHash = Some(BootstrapSecret)
    /\ ret.inputToken = BootstrapSecret
    /\ ret.event = "ADMIN_LOGIN_SUCCESS"

\* C4: with no bootstrap secret configured, login(t) for a token matching
\* no record returns false, leaves the session unauthenticated and creates
\* no record; verifyAdminToken(t) is false for every t.
C4_NoBootstrapSecret ==
    /\ (ret.op = "login" /\ adminHash = None /\ ret.registered = {}) =>
           /\ ~ret.result
           /\ session = ret.sessionBefore
           /\ ~session.isAuthenticated
           /\ StoredUsers(localStorage) = ret.usersBefore
    /\ (ret.op = "verifyAdminToken" /\ adminHash = None) => ~ret.result

\* With nothing configured and a record in the store, login with a token of
\* no record has returned false.
C4_Witness ==
    /\ ret.op = "login"
    /\ adminHash = None
    /\ ret.registered = {}
    /\ ret.usersBefore # {}
    /\ ret.event = "LOGIN_FAILED"
    /\ form.error = "Invalid access token"

\* C5: a submit of the login form invokes login() only if its
\* checkRateLimit('login') returned allowed = true; while the identifier is
\* locked no submitted token reaches login() or changes the session.
C5_LoginOnlyWhenAllowed ==
    [][\A text \in FormTexts :
           HandleSubmit(text) =>
               LET rateCheck == checkRateLimit(rateLimitStore, "login", now) IN
               /\ loginCall'.pc # "idle" => rateCheck.allowed
               /\ ~rateCheck.allowed =>
                      /\ loginCall' = loginCall
                      /\ session' = session
                      /\ localStorage' = localStorage
               /\ Phase(rateLimitStore, "login", now) = "locked" =>
                      ~rateCheck.allowed]_vars

\* A token was submitted while the identifier was locked, and was turned
\* away: no login is in flight.
C5_Witness ==
    /\ ret.op = "handleSubmit"
    /\ ret.locked
    /\ ~ret.allowed
    /\ trim(ret.text) # <<>>
    /\ loginCall.pc = "idle"
    /\ form.error = "Rate limit exceeded"

\* ------------------------------------------------------------ claims: store

\* The id a call of saveUserData, loadUserData or deleteUser is about.
IdOfCall(p) ==
    IF procs[p].op \in {"saveUserData", "createUser", "updateUser"}
    THEN procs[p].arg.uuid
    ELSE procs[p].arg

\* The id is not of the form 8-4-4-4-12 hex digits.
NotUuidSyntax(id) == id.groups # <<8, 4, 4, 4, 12>> \/ ~id.hex

\* C11: loadUserData, saveUserData and deleteUser called with an id that is
\* not syntactically a UUID fail with an error and leave every stored record
\* and the users index unchanged; loadUserData with a well-formed UUID that
\* is not stored returns null without error.
C11_InvalidIdRejected ==
    [][\A p \in Callers :
           (RunBody(p) /\ procs[p].op \in {"saveUserData", "loadUserData",
                                           "deleteUser"}) =>
               /\ NotUuidSyntax(IdOfCall(p)) =>
                      /\ procs'[p].result.threw
                      /\ procs'[p].result.value = "Invalid UUID format"
                      /\ localStorage' = localStorage
               /\ (/\ procs[p].op = "loadUserData"
                   /\ ~NotUuidSyntax(IdOfCall(p))
                   /\ IdOfCall(p).text \notin DOMAIN localStorage.items) =>
                      /\ ~procs'[p].result.threw
                      /\ procs'[p].result.value = None]_vars

\* A saveUserData and a deleteUser with a malformed id have both failed,
\* and a loadUserData of a well-formed id that is not stored has returned
\* null.
C11_Witness ==
    \E p, q, r \in Callers :
        /\ procs[p].pc = "done" /\ procs[p].op = "saveUserData"
        /\ NotUuidSyntax(procs[p].arg.uuid) /\ procs[p].result.threw
        /\ procs[q].pc = "done" /\ procs[q].op = "deleteUser"
        /\ NotUuidSyntax(procs[q].arg) /\ procs[q].result.threw
        /\ procs[r].pc = "done" /\ procs[r].op = "loadUserData"
        /\ ~NotUuidSyntax(procs[r].arg)
        /\ procs[r].result = [threw |-> FALSE, value |-> None]

\* C12: after a record was created or saved, deleteUser(id) returns true;
\* then loadUserData(id) returns null, id is not in the users index, and
\* findUserByTokenHash(record.tokenHash) returns null when no other stored
\* record carries that hash.
C12_DeleteThenLookup ==
    [][\A p \in Callers :
           (/\ RunBody(p)
            /\ procs[p].op = "deleteUser"
            /\ procs[p].arg.text \in DOMAIN localStorage.items) =>
               LET id == procs[p].arg
                   record == JsonParse(localStorage.items[id.text])
                   others == {JsonParse(localStorage'.items[k]) :
                                  k \in DOMAIN localStorage'.items}
               IN  /\ procs'[p].result = [threw |-> FALSE, value |-> TRUE]
                   /\ loadUserData(localStorage', id) = Returned(localStorage', None)
                   /\ id \notin Range(getUsersIndex(localStorage'))
                   /\ (\A u \in others : u.tokenHash # record.tokenHash) =>
                          findUserByTokenHash(localStorage', record.tokenHash).value
                              = None]_vars

\* A record was saved, and the deleteUser that waited for the save has
\* returned true: the record is gone.
C12_Witness ==
    \E p, q \in Callers :
        /\ p # q /\ procs[p].key = procs[q].key
        /\ \A r \in Callers \ {p, q} : procs[r].pc = "idle"
        /\ procs[q].pc = "done" /\ procs[q].op = "saveUserData"
        /\ ~procs[q].waited /\ ~procs[q].result.threw
        /\ procs[p].pc = "done" /\ procs[p].op = "deleteUser"
        /\ procs[p].waited
        /\ procs[p].result = [threw |-> FALSE, value |-> TRUE]
        /\ procs[p].arg.text \notin DOMAIN localStorage.items

C14_SessionRestoredOnReload ==
    /\ (ret.op = "login" /\ ret.result) =>
           localStorage.authToken = Some(ret.inputToken)
    /\ (ret.op = "validateSession" /\ ret.registered # {}) =>
           /\ session.isAuthenticated
           /\ session.user # None
           /\ \E u \in ret.registered : IsStoredAs(session.user[1], u)
           /\ localStorage.authToken = ret.authTokenBefore

\* ----------------------------------------------------- claims: verification

\* Every salt a hash of hashToken's can carry in this model.
AllSalts == 0..(FirstSalt + MaxHashes)

\* The hash is not six '$'-separated fields with the pbkdf2 tag.
IsMalformed(hash) ==
    IF Len(split(hash, "$")) # 6 THEN TRUE ELSE split(hash, "$")[2] # <<"pbkdf2">>

\* C15: for every token T and every encoded hash h that hashToken(T) can
\* produce, under any salt, verifyToken(T, h) returns true.
C15_OwnHashVerifies ==
    (/\ ret.op = "verifyToken"
     /\ ret.token # None
     /\ \E salt \in AllSalts : ret.hash = hashToken(ret.token[1], salt))
        => ret.out.result

\* C15's case: with no bootstrap secret set, a token was verified against
\* the hash hashToken had just returned for it.
C15_Witness ==
    /\ adminHash = None
    /\ ret.op = "verifyToken"
    /\ ret.token = Some(IssuedToken)
    /\ ret.hash = hashToken(IssuedToken, FirstSalt)
    /\ ret.out.result

C17_BootstrapSecretBypass ==
    (/\ ret.op = "verifyToken"
     /\ ret.token # None
     /\ adminHash # None)
        => /\ ret.token = adminHash => ret.out.result
           /\ (ret.token # adminHash /\ IsMalformed(ret.hash)) => ~ret.out.result

\* C17's case: the bootstrap secret was verified against the well-formed
\* hash of another token and accepted.
C17_Witness ==
    /\ adminHash = Some(BootstrapSecret)
    /\ ret.op = "verifyToken"
    /\ ret.token = adminHash
    /\ ret.hash = hashToken(IssuedToken, 0)
    /\ ret.out.result

\* C18: verifyToken never throws; for a token that is not the bootstrap
\* secret, when the hash is malformed or the parsing or derivation raises (a
\* null token, an iteration count that is no number), it computes one dummy
\* hashToken and returns false.
C18_NeverThrows ==
    ret.op = "verifyToken"
        => /\ ~ret.out.threw
           /\ (/\ ~(adminHash # None /\ ret.token = adminHash)
               /\ \/ IsMalformed(ret.hash)
                  \/ ret.hash \in RaisingHashes
                  \/ (ret.token = None /\ adminHash # None))
                  => (ret.out.dummy = 1 /\ ~ret.out.result)

\* C18's case: a token was verified against a hash whose iteration count is
\* no number; one dummy hash was computed and false returned.
C18_Witness ==
    /\ ret.op = "verifyToken"
    /\ ret.token = Some(IssuedToken)
    /\ ret.hash = <<"$", "pbkdf2", "$", "sha256", "$", "abc", "$", "salt0", "$", "00ff">>
    /\ ret.out.dummy = 1
    /\ ~ret.out.result
    /\ ~ret.out.threw

\* ----------------------------------------------------------- claims: cipher

\* C19: for all secrets S and passphrases P, decryptApiKey(encryptApiKey(S,
\* P), P) returns S, for every salt and iv that encryptApiKey may draw.
C19_RoundTrip ==
    (/\ ret.op = "decryptApiKey"
     /\ ~ret.altered
     /\ ret.password = ret.encryptedWith)
        => IF ret.out.threw THEN FALSE ELSE ret.out.value = ret.key

\* C20: decryptApiKey applied to a blob whose ciphertext or tag bytes were
\* altered, or with a passphrase different from the one used to encrypt,
\* fails with an error and never returns a plaintext.
C20_TamperOrWrongPassphraseFails ==
    (/\ ret.op = "decryptApiKey"
     /\ (ret.altered \/ ret.password # ret.encryptedWith))
        => ret.out.threw

\* C20, amended: decryptApiKey applied to a blob whose ciphertext or tag
\* bytes were altered, or with a passphrase whose UTF-8 encoding differs from
\* that of the one used to encrypt, fails with an error and never returns a
\* plaintext.
C20_TamperOrOtherKeyFails ==
    (/\ ret.op = "decryptApiKey"
     /\ \/ ret.altered
        \/ TextEncoderEncode(ret.password) # TextEncoderEncode(ret.encryptedWith))
        => ret.out.threw

\* C20's case: a blob with one byte altered was decrypted under the
\* passphrase it was encrypted with, and the call failed.
C20_Witness ==
    /\ ret.op = "decryptApiKey"
    /\ ret.altered
    /\ ret.password = ret.encryptedWith
    /\ ret.key = <<97, 98>>
    /\ ret.out.threw

\* ------------------------------------------- claims: rate limiter and audit

\* C23: each checkRateLimit call that returns allowed = false appends an
\* audit event, the call that starts the lockout and every call rejected
\* while the lockout is active.
C23_RejectedChecksLogged ==
    [][(ret'.op = "checkRateLimit" /\ ~ret'.allowed)
           => Len(auditLogs') = Len(auditLogs) + 1]_vars

\* C29, as stated: the check that brings attempts to MAX moves the
\* identifier from counting to locked and sets lockedUntil = now + LOCKOUT.
C29_MaxthAttemptLocks ==
    [][\A x \in Identifiers :
          ( /\ ret'.op = "checkRateLimit" /\ ret'.id = x
            /\ x \in DOMAIN rateLimitStore
            /\ rateLimitStore[x].attempts = RATE_LIMIT_ATTEMPTS - 1
            /\ rateLimitStore'[x].attempts = RATE_LIMIT_ATTEMPTS )
          => /\ Phase(rateLimitStore', x, now) = "locked"
             /\ rateLimitStore'[x].lockedUntil = now + LOCKOUT_DURATION]_vars

\* C29, amended: the check that finds attempts at MAX, within the window of
\* the last attempt, moves the identifier from counting to locked, sets
\* lockedUntil = now + LOCKOUT and is rejected; the check that brings
\* attempts to MAX is allowed and leaves the identifier counting.
C29_CheckAtMaxLocks ==
    [][\A x \in Identifiers :
          ( /\ ret'.op = "checkRateLimit" /\ ret'.id = x
            /\ x \in DOMAIN rateLimitStore
            /\ Phase(rateLimitStore, x, now) = "counting"
            /\ now - rateLimitStore[x].lastAttempt <= RATE_LIMIT_WINDOW )
          => /\ rateLimitStore[x].attempts = RATE_LIMIT_ATTEMPTS =>
                    /\ Phase(rateLimitStore', x, now) = "locked"
                    /\ rateLimitStore'[x].lockedUntil = now + LOCKOUT_DURATION
                    /\ ~ret'.allowed
             /\ rateLimitStore[x].attempts = RATE_LIMIT_ATTEMPTS - 1 =>
                    /\ rateLimitStore'[x].attempts = RATE_LIMIT_ATTEMPTS
                    /\ Phase(rateLimitStore', x, now) = "counting"
                    /\ ret'.allowed]_vars

\* C29's case: a check found attempts at MAX and started the lockout.
C29_Witness ==
    /\ ret.op = "checkRateLimit"
    /\ ret.phase = "counting"
    /\ ~ret.allowed
    /\ rateLimitStore[ret.id].attempts = RATE_LIMIT_ATTEMPTS
    /\ rateLimitStore[ret.id].lockedUntil = now + LOCKOUT_DURATION

\* C30: a check of an identifier that is not locked, arriving more than
\* WINDOW after the first attempt of the current window, resets attempts to
\* 1 and is allowed, also when further attempts were made in between.
C30_WindowAnchoredAtFirstAttempt ==
    [][\A x \in Identifiers :
          ( /\ ret'.op = "checkRateLimit" /\ ret'.id = x
            /\ x \in DOMAIN rateLimitStore
            /\ Phase(rateLimitStore, x, now) # "locked"
            /\ now - rlWindowStart[x] > RATE_LIMIT_WINDOW )
          => /\ rateLimitStore'[x].attempts = 1
             /\ ret'.allowed]_vars

\* ------------------------------------------------------ claims: comparators

\* The string has a surrogate that is not half of a pair.
HasUnpairedSurrogate(str) ==
    \E i \in 1..Len(str) :
        \/ /\ str[i] \in 55296..56319
           /\ IF i = Len(str) THEN TRUE ELSE str[i + 1] \notin 56320..57343
        \/ /\ str[i] \in 56320..57343
           /\ IF i = 1 THEN TRUE ELSE str[i - 1] \notin 55296..56319

\* C21, as stated: constantTimeEqual(a, b) returns true exactly when a and b
\* are the same string, in the version of crypto.ts and in that of auth.ts.
C21_TrueExactlyOnSameString ==
    ret.op = "constantTimeEqual"
        => /\ ret.crypto = (ret.a = ret.b)
           /\ ret.auth = (ret.a = ret.b)

\* C21, amended: the version of crypto.ts returns true exactly when a and b
\* are the same string; the version of auth.ts returns true exactly when a
\* and b have the same UTF-8 encoding, which is when they are the same
\* string if neither has an unpaired surrogate.
C21_TrueExactlyOnSameEncoding ==
    ret.op = "constantTimeEqual"
        => /\ ret.crypto = (ret.a = ret.b)
           /\ ret.auth = (TextEncoderEncode(ret.a) = TextEncoderEncode(ret.b))
           /\ (~HasUnpairedSurrogate(ret.a) /\ ~HasUnpairedSurrogate(ret.b))
                  => ret.auth = (ret.a = ret.b)

\* C21's case: two strings of equal length that differ at their last
\* character were compared, and both versions returned false.
C21_Witness ==
    /\ ret.op = "constantTimeEqual"
    /\ ret.a = <<97, 98>>
    /\ ret.b = <<97, 97>>
    /\ ~ret.crypto
    /\ ~ret.auth

\* ------------------------------------------------------------ claims: login

\* An item of the storage is no JSON: the lookup of login() throws on it.
Corrupted(ls) == \E k \in DOMAIN ls.items : ~JsonParses(ls.items[k])

\* The configured text accepts the token: it is the token itself, or a hash
\* of it.
AcceptedBySecret(token, env) ==
    IF env = None THEN FALSE
    ELSE \/ token = env[1]
         \/ \E salt \in 0..(FirstSalt + MaxHashes) : env[1] = hashToken(token, salt)

\* C22: every call of login() appends exactly one audit event, on its last
\* step and none before, whose tag identifies the outcome: LOGIN_ERROR for
\* an internal error, LOGIN_FAILED for no match, ADMIN_LOGIN_SUCCESS for a
\* bootstrap match (a record is created), LOGIN_SUCCESS for a record found.
C22_OneAuditEventPerLogin ==
    [][(loginCall.pc # "idle" /\ loginCall' # loginCall) =>
           IF loginCall'.pc # "idle" THEN auditLogs' = auditLogs
           ELSE /\ Len(auditLogs') = Len(auditLogs) + 1
                /\ SubSeq(auditLogs', 1, Len(auditLogs)) = auditLogs
                /\ auditLogs'[Len(auditLogs')].event =
                       (IF Corrupted(localStorage) THEN "LOGIN_ERROR"
                        ELSE IF ~ret'.result THEN "LOGIN_FAILED"
                        ELSE IF localStorage'.items # localStorage.items
                        THEN "ADMIN_LOGIN_SUCCESS"
                        ELSE "LOGIN_SUCCESS")]_vars

\* C22's case: a login that found the record of its token has returned, with
\* its one event in the log.
C22_Witness ==
    /\ ret.op = "login"
    /\ ret.result
    /\ session.user # None
    /\ session.user[1] \in ret.usersBefore
    /\ Len(auditLogs) = 1
    /\ auditLogs[1].event = "LOGIN_SUCCESS"

\* C24: a login attempt made while no bootstrap secret is configured records
\* an audit event distinct from the event of an ordinary invalid-token
\* failure.
C24_DistinctEventWithoutSecret ==
    (ret.op = "login" /\ adminHash = None /\ ~ret.result) =>
        IF Len(auditLogs) = 0 THEN FALSE
        ELSE auditLogs[Len(auditLogs)].event # "LOGIN_FAILED"

\* C25: logout() sets isAuthenticated = false, user = null and token = null
\* and removes auth_token, and leaves every stored user record, the users
\* index and the rate-limit state unchanged.
C25_LogoutClearsSessionOnly ==
    [][ret'.op = "logout" =>
           /\ ~session'.isAuthenticated
           /\ session'.user = None
           /\ session'.token = None
           /\ localStorage'.authToken = None
           /\ localStorage'.items = localStorage.items
           /\ localStorage'.index = localStorage.index
           /\ rateLimitStore' = rateLimitStore]_vars

\* C25's case: logout() has returned with a record in the store and the
\* login identifier counted by the rate limiter.
C25_Witness ==
    /\ ret.op = "logout"
    /\ StoredUsers(localStorage) # {}
    /\ "login" \in DOMAIN rateLimitStore
    /\ session = NoSession

\* C26: login(t) returns false and leaves the session, auth_token and the
\* record store unchanged, and the form shows the same message, whether t is
\* a token of no record that the bootstrap secret does not accept, or the
\* lookup raised an internal error; login() never throws.
C26_FailuresLookAlike ==
    [][(loginCall.pc # "idle" /\ loginCall'.pc = "idle") =>
           /\ ~ret'.threw
           /\ ( \/ Corrupted(localStorage)
                \/ /\ RecordsOfToken(localStorage, loginCall.inputToken) = {}
                   /\ ~AcceptedBySecret(loginCall.inputToken, adminHash) )
                  => /\ ~ret'.result
                     /\ session' = session
                     /\ localStorage' = localStorage
                     /\ form'.error = "Invalid access token"]_vars

\* C26's case: a login whose lookup raised has returned false.
C26_Witness ==
    /\ ret.op = "login"
    /\ Corrupted(localStorage)
    /\ ~ret.result
    /\ ~ret.threw
    /\ form.error = "Invalid access token"
    /\ session = NoSession

\* C27: when login finds an existing record for the submitted token, that
\* record's lastAccess in the store is updated to the time of the login.
C27_LastAccessUpdatedOnLogin ==
    (/\ ret.op = "login"
     /\ ret.result
     /\ session.user # None
     /\ session.user[1] \in ret.usersBefore)
        => \E u \in StoredUsers(localStorage) :
               /\ u.uuid = session.user[1].uuid
               /\ u.lastAccess = ToISOString(now)

\* C28: after a bootstrap login the stored record with the session user's
\* uuid has the session user's permissions and role.
C28_StoredAdminHasElevatedPermissions ==
    (/\ ret.op = "login"
     /\ ret.result
     /\ session.user # None
     /\ session.user[1].uuid \notin {u.uuid : u \in ret.usersBefore})
        => \E u \in StoredUsers(localStorage) :
               /\ u.uuid = session.user[1].uuid
               /\ u.role = session.user[1].role
               /\ u.permissions = session.user[1].permissions

\* ------------------------------------- claims: rate limiter, any durations

\* C31, as stated: whatever the window and the lockout are, a check made at
\* or after lockedUntil is allowed and leaves attempts = 1 and lockedUntil
\* null.
C31_ExpiredLockRestartsAnyDurations ==
    [][(ret'.op = "checkRateLimit" /\ ret'.expired) =>
           /\ ret'.allowed
           /\ rateLimitStore'[ret'.id] = FreshState(now)]_vars

\* C31, amended: when the lockout is longer than the window, as in the
\* source, a check made at or after lockedUntil is allowed and leaves
\* attempts = 1 and lockedUntil null.
C31_ExpiredLockRestarts ==
    [][(/\ ret'.op = "checkRateLimit"
        /\ ret'.expired
        /\ rlConfig.lockout > rlConfig.window) =>
           /\ ret'.allowed
           /\ ret'.retryAfter = 0
           /\ rateLimitStore'[ret'.id] = FreshState(now)]_vars

\* C31's case: under durations other than the source's, with the lockout
\* the longer one, a check made at the very millisecond of lockedUntil has
\* been allowed.
C31_Witness ==
    /\ ret.op = "checkRateLimit"
    /\ ret.expired
    /\ rlConfig # CodeConfig
    /\ rlConfig.lockout > rlConfig.window
    /\ now = rlConfig.lockout
    /\ ret.allowed
    /\ rateLimitStore[ret.id] = FreshState(now)

\* ---------------------------------------- claims: rate limiter, invariants

\* C32: every state of every identifier has 1 <= attempts <= MAX, and a
\* non-null lockedUntil only with attempts = MAX.
C32_AttemptsWithinBudget ==
    \A x \in DOMAIN rateLimitStore :
        /\ rateLimitStore[x].attempts >= 1
        /\ rateLimitStore[x].attempts <= RATE_LIMIT_ATTEMPTS
        /\ rateLimitStore[x].lockedUntil # NullTime =>
               rateLimitStore[x].attempts = RATE_LIMIT_ATTEMPTS

\* C32's case: an identifier has just been locked, with attempts = MAX.
C32_Witness ==
    /\ ret.op = "checkRateLimit"
    /\ ret.branch = "exceeded"
    /\ rateLimitStore[ret.id].lockedUntil # NullTime
    /\ rateLimitStore[ret.id].attempts = RATE_LIMIT_ATTEMPTS

\* C33: checkRateLimit has no await, so concurrent callers' calls run one
\* after the other in some order; of k calls for an identifier from no
\* state, all made within one window (the first window of the page's
\* life), the k-th is allowed exactly if k <= MAX and leaves
\* attempts = min(k, MAX): no increment is lost.
C33_NoLostIncrement ==
    [][\A x \in Identifiers :
          ( /\ ret'.op = "checkRateLimit" /\ ret'.id = x
            /\ rlCalls'[x] > 0
            /\ now <= RATE_LIMIT_WINDOW ) =>
              /\ ret'.allowed <=> rlCalls'[x] <= RATE_LIMIT_ATTEMPTS
              /\ rateLimitStore'[x].attempts =
                     Min(rlCalls'[x], RATE_LIMIT_ATTEMPTS)]_vars

\* C33's case: more than MAX calls in a row have been made, and attempts is
\* MAX.
C33_Witness ==
    /\ ret.op = "checkRateLimit"
    /\ rlCalls[ret.id] = RATE_LIMIT_ATTEMPTS + 2
    /\ now <= RATE_LIMIT_WINDOW
    /\ now > 0
    /\ ~ret.allowed
    /\ rateLimitStore[ret.id].attempts = RATE_LIMIT_ATTEMPTS

\* C39: a reload of the page leaves the rate limiter without any state, and
\* the first check of an identifier that was locked when the page was
\* reloaded is allowed.
C39_RestartForgetsLockout ==
    [][/\ ret'.op = "reload" => rateLimitStore' = <<>>
       /\ (ret'.op = "checkRateLimit" /\ ret.op = "reload") =>
              /\ ret'.allowed
              /\ ret'.phase = "fresh"
              /\ rateLimitStore'[ret'.id] = FreshState(now)]_vars

\* C39's case: the identifier was locked when the page was reloaded, the
\* lockout would still last, and the check after the reload was allowed.
C39_Witness ==
    /\ ret.op = "checkRateLimit"
    /\ ret.lockedBeforeReload
    /\ reloads = 1
    /\ now < LOCKOUT_DURATION
    /\ ret.allowed

\* ------------------------------------------------- claims: the users index

\* The operations that write the users index.
IndexMutating == {"saveUserData", "createUser", "updateUser", "deleteUser",
                  "clearAllData"}

C35_IndexWritersExcludeEachOther ==
    \A p, q \in Callers :
        ( /\ p # q
          /\ procs[p].op \in IndexMutating
          /\ procs[q].op \in IndexMutating
          /\ Holds(p, procs[p].key) )
        => ~Holds(q, procs[q].key)

\* ------------------------------------------------------- claims: progress

\* C40: a caller waiting for a lock holds none, and under an event loop
\* that keeps running its jobs every store operation that was called comes
\* to its end, having released its lock: no waiter waits forever.
C40_EveryOperationCompletes ==
    /\ [](\A p \in Callers :
             procs[p].pc \in {"waiting", "woken"} =>
                 \A key \in DOMAIN locks : locks[key].holder # p)
    /\ \A p \in Callers :
           (procs[p].pc \notin {"idle", "done"}) ~>
               ( /\ procs[p].pc = "done"
                 /\ \A key \in DOMAIN locks : locks[key].holder # p )

\* ------------------------------------------------ claims: bootstrap logins

\* The admin records of the store.
AdminRecords(ls) == {u \in StoredUsers(ls) : u.role = "admin"}

C37_FormHandsOverTypedToken ==
    [][ /\ (ret'.op = "handleSubmit" /\ loginCall'.pc = "hashing") =>
               loginCall'.inputToken = trim(ret'.text)
        /\ ( /\ ret'.op = "login"
             /\ loginCall.inputToken = sanitizeInput(trim(EnvText(adminHash))) ) =>
               (ret'.result /\ isAdmin(session'.user)) ]_vars

\* --------------------------------------------- claims: verifyToken's work

\* C38: every call of verifyToken runs the key derivation, the same number
\* of times (once, of the token or of the dummy) whether the token is the
\* configured secret or not.
C38_DerivationOnEveryCall ==
    (ret.op = "verifyToken") => (ret.out.derived + ret.out.dummy = 1)
====
